---- MODULE Spec2Model ----
(***************************************************************************)
(* Reference Resolution Engine of NpsAnalyzer (src/src/stack_trace_analyzer) *)
(*                                                                         *)
(* Part I   StackTraceAnalyzerCache (cache_manager.py): the TTL/LRU cache   *)
(*          with its reentrant lock, its JSON persistence and restarts.     *)
(*          Specification CacheSpec.                                        *)
(* Part II  The orchestrators RobustStackTraceAnalysisSystem.analyze and    *)
(*          StackTraceAnalysisInterface.analyze_stack_trace with the parser,*)
(*          the file finder and the method extractor they call, over a      *)
(*          repository whose files come and go.  Specification ResolveSpec. *)
(* Part III The two file locators, EnhancedRepositoryFileFinder.find_file   *)
(*          and StackTraceLocator._locate_file, with the log of the paths   *)
(*          they probe.  Specification LocateSpec.                          *)
(* Part IV  The method extractors: EnhancedMethodExtractor.extract, the     *)
(*          extraction of StackTraceLocator, EnhancedMethodExtractor of     *)
(*          enhanced_extractor.py behind EnhancedExtractionAdapter, over    *)
(*          Java text as a sequence of lines.  Specification ExtractSpec.   *)
(* Part V   The two parsers, RobustStackTraceParser.parse and               *)
(*          StackTraceLocator._parse_input, on dot chains, hash forms,      *)
(*          stack frames and paths.  Specification ParseSpec.               *)
(* Part VI  Whole calls and the envelopes they return:                      *)
(*          RobustStackTraceAnalysisSystem.analyze and                      *)
(*          StackTraceLocator.locate.  Specification EnvelopeSpec.          *)
(* Part VII get_cache() of cache_manager.py, the accessor of the global     *)
(*          cache instance, called by several threads.  Specification       *)
(*          SingletonSpec.                                                  *)
(* Part VIII The orchestrators as whole calls with their cache, on inputs   *)
(*          and roots that hold ":".  Specification KeyedSpec.              *)
(*                                                                         *)
(* Text (inputs, class names, paths) is a sequence of tokens: maximal runs  *)
(* of word characters, and each other character on its own, so "a.B#f" is   *)
(* <<"a", ".", "B", "#", "f">>.  The string operations of the code (strip,  *)
(* split, replace, +, the regular expressions) are operators on tokens.     *)
(***************************************************************************)
EXTENDS Integers, Sequences, FiniteSets, TLC

VARIABLES
    memory_cache,   \* StackTraceAnalyzerCache.memory_cache: insertion-ordered dict, a sequence of items [k, v] with v a CacheEntry
    extracted_code_file,    \* cache_dir/extracted_code.json
    analysis_results_file,  \* cache_dir/analysis_results.json
    cache_metadata_file,    \* cache_dir/cache_metadata.json
    now,            \* datetime.now(), in ticks
    lock,           \* self.lock (threading.RLock): [owner, count]
    pc,             \* per thread: position inside the handler it runs
    cur,            \* per thread: arguments and locals of the running handler
    ret,            \* per thread: value returned by the last completed handler
    lastPut,        \* history: per memory key, the payload and time of the last store on this instance
    evicted,        \* history: memory keys removed by cleanup_cache's LRU pass since their last store
    lastSnapshot,   \* history: entries of the last completely written snapshot
    justLoaded,     \* history: TRUE right after a restart loaded the cache from disk
    ops,            \* history: handler invocations started so far
    \* ---- Part II
    fs,             \* the files that exist under the repository roots (paths)
    orch,           \* the orchestrator instance: [kind, cache_enabled]
    cache,          \* the orchestrator's self.cache: dict cache_key -> envelope, as items [k, v]
    apc,            \* per thread: position inside analyze / analyze_stack_trace
    call,           \* per thread: arguments and locals of the running call
    hist,           \* history, per thread: steps run by the call, what was stored when it began
    stored,         \* history: dict cache_key -> envelope last stored since the last clear_cache()
    everStored,     \* history: cache keys some call of this instance has stored
    calls,          \* history: calls started so far
    fsChanges,      \* history: files created or deleted so far
    \* ---- Part III
    lpc,            \* position of the locate call: "idle" or "done"
    loc,            \* arguments and result of the locate call
    probes,         \* history: the paths the locate call tested, in order
    \* ---- Part IV
    xpc,            \* position of the extract call: "idle" or "done"
    ext,            \* arguments and result of the extract call
    \* ---- Part V
    ppc,            \* position of the parse call: "idle" or "done"
    par,            \* argument and result of the parse call
    \* ---- Part VII
    _global_cache,  \* cache_manager._global_cache: the instance it names, 0 for None
    gpc,            \* per thread: position inside get_cache()
    constructed,    \* per thread: the instance its StackTraceAnalyzerCache() call made, 0 for none
    returned,       \* per thread: the instance its last get_cache() returned, 0 for none
    instances,      \* history: instances constructed so far
    \* ---- Part VIII
    origin          \* history: dict cache_key -> the <<input, repo_root>> of the call that stored under it

cacheVars == <<memory_cache, extracted_code_file, analysis_results_file,
               cache_metadata_file, now, lock, pc, cur, ret,
               lastPut, evicted, lastSnapshot, justLoaded, ops>>

resolveVars == <<fs, orch, cache, apc, call, hist, stored, everStored, calls, fsChanges>>

locateVars == <<lpc, loc, probes>>

extractVars == <<xpc, ext>>

parseVars == <<ppc, par>>

singletonVars == <<_global_cache, gpc, constructed, returned, instances>>

vars == <<cacheVars, resolveVars, locateVars, extractVars, parseVars, singletonVars, origin>>

\* ---------------------------------------------------------------- bounds
MaxTime == 2        \* the clock runs 0..MaxTime
max_age == 1        \* StackTraceAnalyzerCache.max_age (constructor parameter), in ticks
max_entries == 1    \* StackTraceAnalyzerCache.max_entries (constructor parameter)
MaxAccess == 2      \* access_count is followed up to this value
MaxOps == 4         \* handler invocations per run

SavePeriod == 10    \* "if len(self.memory_cache) % 10 == 0" in the store_* handlers

Threads == {"t1", "t2"}
None == "None"

\* StackTraceInfo values the callers pass (full_class_path, method_name).
Infos == { [full_class_path |-> "a.B", method_name |-> "f"],
           [full_class_path |-> "a.B", method_name |-> "g"] }
Repos == {"r"}
\* The StackTraceInfo values that analysis results are stored and read for.
AnalysisInfos == { [full_class_path |-> "a.B", method_name |-> "f"] }
\* Payloads: ExtractedCode objects / analysis result dicts.
Payloads == {"p1", "p2"}

\* ---------------------------------------------------------------- helpers
\* hashlib.sha256(s).hexdigest()[:16], as one token of hex digits; distinct
\* key strings of the model have distinct digests.
Sha16(s) == "#" \o s

_generate_key(info, repo) ==
    <<Sha16(repo \o "::" \o info.full_class_path \o "::" \o info.method_name)>>

\* f"analysis_{base_key}"
AnalysisKey(base_key) == <<"analysis_">> \o base_key

\* key.replace('analysis_', ''): every occurrence of the token is removed.
StripAnalysis(key) == SelectSeq(key, LAMBDA tok : tok # "analysis_")

\* ExtractedCode.to_dict(): the dict form of the object.
ExtractedCodeToDict(p) == "dict:" \o p

\* datetime.isoformat() / datetime.fromisoformat()
IsoFormat(t) == <<"iso", t>>
FromIsoFormat(s) == s[2]

CacheEntry(key, data, ts, ac, la, ty) ==
    [key |-> key, data |-> data, timestamp |-> ts, access_count |-> ac,
     last_accessed |-> la, entry_type |-> ty]

to_dict(e) ==
    [key |-> e.key, data |-> e.data, timestamp |-> IsoFormat(e.timestamp),
     access_count |-> e.access_count, last_accessed |-> IsoFormat(e.last_accessed),
     entry_type |-> e.entry_type]

from_dict(d) ==
    CacheEntry(d.key, d.data, FromIsoFormat(d.timestamp), d.access_count,
               FromIsoFormat(d.last_accessed), d.entry_type)

\* Python dict operations on the insertion-ordered sequence of items.
IndexOf(mc, key) ==
    IF \E i \in 1..Len(mc) : mc[i].k = key
    THEN CHOOSE i \in 1..Len(mc) : mc[i].k = key
    ELSE 0

HasKey(mc, key) == IndexOf(mc, key) # 0

DictGet(mc, key) == mc[IndexOf(mc, key)].v

\* d[key] = entry: an existing key keeps its position, a new key is appended.
DictSet(mc, key, entry) ==
    IF HasKey(mc, key)
    THEN [mc EXCEPT ![IndexOf(mc, key)] = [k |-> key, v |-> entry]]
    ELSE Append(mc, [k |-> key, v |-> entry])

\* del d[key]
DictDel(mc, key) == SelectSeq(mc, LAMBDA it : it.k # key)

Items(mc) == { mc[i] : i \in 1..Len(mc) }
Values(mc) == { mc[i].v : i \in 1..Len(mc) }
KeySet(mc) == { mc[i].k : i \in 1..Len(mc) }

\* A cache file on disk: absent, being written (opened with 'w', truncated,
\* dump not finished), or holding a complete JSON map (ordered items).
AbsentFile == [exists |-> FALSE, complete |-> FALSE, items |-> <<>>]
PartialFile == [exists |-> TRUE, complete |-> FALSE, items |-> <<>>]
JsonFile(items) == [exists |-> TRUE, complete |-> TRUE, items |-> items]

MemKeys == { _generate_key(i, r) : i \in Infos, r \in Repos }
           \cup { AnalysisKey(_generate_key(i, r)) : i \in AnalysisInfos, r \in Repos }

NoPut == <<>>
\* ------------------------------------------------ _load_cache / _save_cache
RECURSIVE LoadItems(_, _, _, _)
\* "for key, entry_data in data.items(): self.memory_cache[prefix+key] = from_dict(entry_data)"
LoadItems(mc, items, i, analysis) ==
    IF i > Len(items) THEN mc
    ELSE LET k == IF analysis THEN AnalysisKey(items[i].k) ELSE items[i].k
         IN LoadItems(DictSet(mc, k, from_dict(items[i].v)), items, i + 1, analysis)

\* _load_cache into memory_cache mc: json.load of a file that was not written
\* to its end raises, and the except branch empties the whole memory cache.
_load_cache(mc, xf, af) ==
    IF (xf.exists /\ ~xf.complete) \/ (af.exists /\ ~af.complete)
    THEN <<>>
    ELSE LET m1 == IF xf.exists THEN LoadItems(mc, xf.items, 1, FALSE) ELSE mc
         IN IF af.exists THEN LoadItems(m1, af.items, 1, TRUE) ELSE m1

RECURSIVE BuildCache(_, _, _, _)
\* the loop of _save_cache that splits memory_cache by entry_type
BuildCache(mc, i, ty, acc) ==
    IF i > Len(mc) THEN acc
    ELSE IF mc[i].v.entry_type # ty THEN BuildCache(mc, i + 1, ty, acc)
    ELSE LET k == IF ty = "analysis_result" THEN StripAnalysis(mc[i].k) ELSE mc[i].k
         IN BuildCache(mc, i + 1, ty, DictSet(acc, k, to_dict(mc[i].v)))

RECURSIVE SumAccess(_, _)
SumAccess(mc, i) == IF i > Len(mc) THEN 0 ELSE mc[i].v.access_count + SumAccess(mc, i + 1)

RECURSIVE SumAge(_, _, _)
SumAge(mc, i, t) == IF i > Len(mc) THEN 0 ELSE (t - mc[i].v.timestamp) + SumAge(mc, i + 1, t)

get_cache_stats(mc, t) ==
    IF Len(mc) = 0
    THEN [total_entries |-> 0, extracted_code_entries |-> 0,
          analysis_result_entries |-> 0, total_access_count |-> 0, total_age |-> 0]
    ELSE [total_entries |-> Len(mc),
          extracted_code_entries |-> Cardinality({i \in 1..Len(mc) : mc[i].v.entry_type = "extracted_code"}),
          analysis_result_entries |-> Cardinality({i \in 1..Len(mc) : mc[i].v.entry_type = "analysis_result"}),
          total_access_count |-> SumAccess(mc, 1),
          total_age |-> SumAge(mc, 1, t)]

Metadata(mc, t) ==
    <<[last_updated |-> IsoFormat(t), total_entries |-> Len(mc),
       cache_stats |-> get_cache_stats(mc, t)]>>

\* ------------------------------------------------ cleanup_cache
\* cleanup_cache: "if now - entry.timestamp > self.max_age"
Expired(e, t) == t - e.timestamp > max_age

\* The age test with the boundary excluded.
Fresh_strict(e, t) == t - e.timestamp < max_age

\* get_*: "if datetime.now() - entry.timestamp <= self.max_age"
Fresh(e, t) == t - e.timestamp <= max_age

RemoveExpired(mc, t) == SelectSeq(mc, LAMBDA it : ~Expired(it.v, t))

\* sorted(items, key=last_accessed)[0]: the sort is stable, so among equal
\* last_accessed values the entry inserted first comes first.
LruIndex(mc) ==
    CHOOSE i \in 1..Len(mc) :
        \A j \in 1..Len(mc) :
            \/ mc[i].v.last_accessed < mc[j].v.last_accessed
            \/ (mc[i].v.last_accessed = mc[j].v.last_accessed /\ i <= j)

RECURSIVE RemoveLru(_, _)
\* delete the first n entries of the sorted list
RemoveLru(mc, n) ==
    IF n <= 0 \/ Len(mc) = 0 THEN mc
    ELSE RemoveLru(DictDel(mc, mc[LruIndex(mc)].k), n - 1)

cleanup_cache(mc, t) ==
    LET live == RemoveExpired(mc, t)
    IN IF Len(live) > max_entries THEN RemoveLru(live, Len(live) - max_entries) ELSE live

\* ------------------------------------------------ the lock
\* A lock that never blocks.
LockAvailable_never_blocks(t) == TRUE

\* threading.RLock.acquire: free, or already held by the caller.
LockAvailable(t) == lock.owner = None \/ lock.owner = t

Acquire(t) == [owner |-> t, count |-> lock.count + 1]
Release(t) == IF lock.count = 1 THEN [owner |-> None, count |-> 0]
              ELSE [owner |-> t, count |-> lock.count - 1]

\* Locals of a handler: the key it works on, the payload, the two maps that
\* _save_cache builds, and where _save_cache returns to.
Locals(op, key, data) ==
    [op |-> op, key |-> key, data |-> data, xc |-> <<>>, ac |-> <<>>, after |-> None]
NoLocals == Locals(None, <<>>, None)

RetPcs == {"store_ret", "get_ret", "cleanup_ret", "stats_ret", "clear_ret", "close_ret"}
SavePcs == {"save_build", "save_open_x", "save_dump_x", "save_open_a", "save_dump_a",
            "save_open_m", "save_dump_m", "save_end"}
\* ------------------------------------------------ handlers of the cache
CanStart(t) == pc[t] = "idle" /\ LockAvailable(t) /\ ops < MaxOps

\* "with self.lock:" at the head of a handler
Enter(t, first, locals) ==
    /\ CanStart(t)
    /\ lock' = Acquire(t)
    /\ pc' = [pc EXCEPT ![t] = first]
    /\ cur' = [cur EXCEPT ![t] = locals]
    /\ ops' = ops + 1
    /\ justLoaded' = FALSE
    /\ UNCHANGED <<memory_cache, extracted_code_file, analysis_results_file,
                   cache_metadata_file, now, ret, lastPut, evicted, lastSnapshot>>

store_extracted_code(t) ==
    \E info \in Infos, repo \in Repos, p \in Payloads :
        Enter(t, "store_put",
              Locals("extracted_code", _generate_key(info, repo), ExtractedCodeToDict(p)))

store_analysis_result(t) ==
    \E info \in AnalysisInfos, repo \in Repos, p \in Payloads :
        Enter(t, "store_put",
              Locals("analysis_result", AnalysisKey(_generate_key(info, repo)), p))

\* The body of store_*: build the entry, assign it, auto-save when the size
\* is a multiple of 10.
StorePut(t) ==
    /\ pc[t] = "store_put"
    /\ LET entry == CacheEntry(cur[t].key, cur[t].data, now, 0, now, cur[t].op)
           mc == DictSet(memory_cache, cur[t].key, entry)
       IN /\ memory_cache' = mc
          /\ IF Len(mc) % SavePeriod = 0
             THEN /\ pc' = [pc EXCEPT ![t] = "save_build"]
                  /\ cur' = [cur EXCEPT ![t].after = "store_ret"]
             ELSE /\ pc' = [pc EXCEPT ![t] = "store_ret"]
                  /\ cur' = cur
    /\ ret' = [ret EXCEPT ![t] = None]
    /\ lastPut' = [lastPut EXCEPT ![cur[t].key] = <<[data |-> cur[t].data, at |-> now]>>]
    /\ evicted' = evicted \ {cur[t].key}
    /\ UNCHANGED <<extracted_code_file, analysis_results_file, cache_metadata_file,
                   now, lock, lastSnapshot, justLoaded, ops>>

\* access_count is followed up to MaxAccess: a get on an entry that reached it
\* is not started.
GetAllowed(key) ==
    HasKey(memory_cache, key) => DictGet(memory_cache, key).access_count < MaxAccess

get_extracted_code(t) ==
    \E info \in Infos, repo \in Repos :
        /\ GetAllowed(_generate_key(info, repo))
        /\ Enter(t, "get_lookup", Locals("get", _generate_key(info, repo), None))

get_analysis_result(t) ==
    \E info \in AnalysisInfos, repo \in Repos :
        /\ GetAllowed(AnalysisKey(_generate_key(info, repo)))
        /\ Enter(t, "get_lookup", Locals("get", AnalysisKey(_generate_key(info, repo)), None))

\* "if key in self.memory_cache" and the age test; an expired entry is deleted.
GetLookup(t) ==
    /\ pc[t] = "get_lookup"
    /\ IF HasKey(memory_cache, cur[t].key)
       THEN IF Fresh(DictGet(memory_cache, cur[t].key), now)
            THEN /\ pc' = [pc EXCEPT ![t] = "get_count"]
                 /\ UNCHANGED <<memory_cache, ret>>
            ELSE /\ memory_cache' = DictDel(memory_cache, cur[t].key)
                 /\ ret' = [ret EXCEPT ![t] = None]
                 /\ pc' = [pc EXCEPT ![t] = "get_ret"]
       ELSE /\ ret' = [ret EXCEPT ![t] = None]
            /\ pc' = [pc EXCEPT ![t] = "get_ret"]
            /\ UNCHANGED memory_cache
    /\ UNCHANGED <<extracted_code_file, analysis_results_file, cache_metadata_file,
                   now, lock, cur, lastPut, evicted, lastSnapshot, justLoaded, ops>>

\* "entry.access_count += 1"
GetCount(t) ==
    /\ pc[t] = "get_count"
    /\ HasKey(memory_cache, cur[t].key)
    /\ LET i == IndexOf(memory_cache, cur[t].key)
       IN memory_cache' = [memory_cache EXCEPT ![i].v.access_count = @ + 1]
    /\ pc' = [pc EXCEPT ![t] = "get_touch"]
    /\ UNCHANGED <<extracted_code_file, analysis_results_file, cache_metadata_file,
                   now, lock, cur, ret, lastPut, evicted, lastSnapshot, justLoaded, ops>>

\* A hit that also renews the entry's timestamp.
GetTouch_renews_timestamp(t) ==
    /\ pc[t] = "get_touch"
    /\ HasKey(memory_cache, cur[t].key)
    /\ LET i == IndexOf(memory_cache, cur[t].key)
       IN /\ memory_cache' = [memory_cache EXCEPT ![i].v.last_accessed = now,
                                                  ![i].v.timestamp = now]
          /\ ret' = [ret EXCEPT ![t] = memory_cache[i].v.data]
    /\ pc' = [pc EXCEPT ![t] = "get_ret"]
    /\ UNCHANGED <<extracted_code_file, analysis_results_file, cache_metadata_file,
                   now, lock, cur, lastPut, evicted, lastSnapshot, justLoaded, ops>>

\* "entry.last_accessed = datetime.now(); return entry.data"
GetTouch(t) ==
    /\ pc[t] = "get_touch"
    /\ HasKey(memory_cache, cur[t].key)
    /\ LET i == IndexOf(memory_cache, cur[t].key)
       IN /\ memory_cache' = [memory_cache EXCEPT ![i].v.last_accessed = now]
          /\ ret' = [ret EXCEPT ![t] = memory_cache[i].v.data]
    /\ pc' = [pc EXCEPT ![t] = "get_ret"]
    /\ UNCHANGED <<extracted_code_file, analysis_results_file, cache_metadata_file,
                   now, lock, cur, lastPut, evicted, lastSnapshot, justLoaded, ops>>

cleanup_cache_begin(t) == Enter(t, "cleanup_run", Locals("cleanup", <<>>, None))

\* The body of cleanup_cache: drop expired entries, then the least recently
\* accessed ones above max_entries; save when anything was removed.
CleanupRun(t) ==
    /\ pc[t] = "cleanup_run"
    /\ LET live == RemoveExpired(memory_cache, now)
           mc == cleanup_cache(memory_cache, now)
       IN /\ memory_cache' = mc
          /\ evicted' = evicted \cup (KeySet(live) \ KeySet(mc))
          /\ IF Len(mc) < Len(memory_cache)
             THEN /\ pc' = [pc EXCEPT ![t] = "save_build"]
                  /\ cur' = [cur EXCEPT ![t].after = "cleanup_ret"]
             ELSE /\ pc' = [pc EXCEPT ![t] = "cleanup_ret"]
                  /\ cur' = cur
    /\ ret' = [ret EXCEPT ![t] = None]
    /\ UNCHANGED <<extracted_code_file, analysis_results_file, cache_metadata_file,
                   now, lock, lastPut, lastSnapshot, justLoaded, ops>>

get_cache_stats_begin(t) == Enter(t, "stats_run", Locals("stats", <<>>, None))

StatsRun(t) ==
    /\ pc[t] = "stats_run"
    /\ ret' = [ret EXCEPT ![t] = get_cache_stats(memory_cache, now)]
    /\ pc' = [pc EXCEPT ![t] = "stats_ret"]
    /\ UNCHANGED <<memory_cache, extracted_code_file, analysis_results_file,
                   cache_metadata_file, now, lock, cur, lastPut, evicted,
                   lastSnapshot, justLoaded, ops>>

clear_cache_begin(t) == Enter(t, "clear_run", Locals("clear", <<>>, None))

\* The body of clear_cache: empty the map and unlink the three files.
ClearRun(t) ==
    /\ pc[t] = "clear_run"
    /\ memory_cache' = <<>>
    /\ extracted_code_file' = AbsentFile
    /\ analysis_results_file' = AbsentFile
    /\ cache_metadata_file' = AbsentFile
    /\ ret' = [ret EXCEPT ![t] = None]
    /\ pc' = [pc EXCEPT ![t] = "clear_ret"]
    /\ lastPut' = [k \in MemKeys |-> NoPut]
    /\ evicted' = {}
    /\ lastSnapshot' = {}
    /\ UNCHANGED <<now, lock, cur, justLoaded, ops>>

save_and_close(t) ==
    Enter(t, "save_build", [Locals("close", <<>>, None) EXCEPT !.after = "close_ret"])
\* ------------------------------------------------ _save_cache, step by step
\* "with self.lock:" (re-entered) and the loop that builds the two maps.
SaveBuild(t) ==
    /\ pc[t] = "save_build"
    /\ lock' = [lock EXCEPT !.count = @ + 1]
    /\ cur' = [cur EXCEPT ![t].xc = BuildCache(memory_cache, 1, "extracted_code", <<>>),
                          ![t].ac = BuildCache(memory_cache, 1, "analysis_result", <<>>)]
    /\ pc' = [pc EXCEPT ![t] = "save_open_x"]
    /\ UNCHANGED <<memory_cache, extracted_code_file, analysis_results_file,
                   cache_metadata_file, now, ret, lastPut, evicted, lastSnapshot,
                   justLoaded, ops>>

\* "if extracted_cache: open(self.extracted_code_file, 'w')": the file is truncated.
SaveOpenExtracted(t) ==
    /\ pc[t] = "save_open_x"
    /\ IF cur[t].xc # <<>>
       THEN /\ extracted_code_file' = PartialFile
            /\ pc' = [pc EXCEPT ![t] = "save_dump_x"]
       ELSE /\ pc' = [pc EXCEPT ![t] = "save_open_a"]
            /\ UNCHANGED extracted_code_file
    /\ UNCHANGED <<memory_cache, analysis_results_file, cache_metadata_file, now, lock,
                   cur, ret, lastPut, evicted, lastSnapshot, justLoaded, ops>>

\* "json.dump(extracted_cache, f)" runs to its end and the file is closed.
SaveDumpExtracted(t) ==
    /\ pc[t] = "save_dump_x"
    /\ extracted_code_file' = JsonFile(cur[t].xc)
    /\ pc' = [pc EXCEPT ![t] = "save_open_a"]
    /\ UNCHANGED <<memory_cache, analysis_results_file, cache_metadata_file, now, lock,
                   cur, ret, lastPut, evicted, lastSnapshot, justLoaded, ops>>

SaveOpenAnalysis(t) ==
    /\ pc[t] = "save_open_a"
    /\ IF cur[t].ac # <<>>
       THEN /\ analysis_results_file' = PartialFile
            /\ pc' = [pc EXCEPT ![t] = "save_dump_a"]
       ELSE /\ pc' = [pc EXCEPT ![t] = "save_open_m"]
            /\ UNCHANGED analysis_results_file
    /\ UNCHANGED <<memory_cache, extracted_code_file, cache_metadata_file, now, lock,
                   cur, ret, lastPut, evicted, lastSnapshot, justLoaded, ops>>

SaveDumpAnalysis(t) ==
    /\ pc[t] = "save_dump_a"
    /\ analysis_results_file' = JsonFile(cur[t].ac)
    /\ pc' = [pc EXCEPT ![t] = "save_open_m"]
    /\ UNCHANGED <<memory_cache, extracted_code_file, cache_metadata_file, now, lock,
                   cur, ret, lastPut, evicted, lastSnapshot, justLoaded, ops>>

SaveOpenMetadata(t) ==
    /\ pc[t] = "save_open_m"
    /\ cache_metadata_file' = PartialFile
    /\ pc' = [pc EXCEPT ![t] = "save_dump_m"]
    /\ UNCHANGED <<memory_cache, extracted_code_file, analysis_results_file, now, lock,
                   cur, ret, lastPut, evicted, lastSnapshot, justLoaded, ops>>

SaveDumpMetadata(t) ==
    /\ pc[t] = "save_dump_m"
    /\ cache_metadata_file' = JsonFile(Metadata(memory_cache, now))
    /\ pc' = [pc EXCEPT ![t] = "save_end"]
    /\ UNCHANGED <<memory_cache, extracted_code_file, analysis_results_file, now, lock,
                   cur, ret, lastPut, evicted, lastSnapshot, justLoaded, ops>>

\* The entries that a completed _save_cache wrote.
Written(xc, ac) ==
    { from_dict(xc[i].v) : i \in 1..Len(xc) } \cup { from_dict(ac[i].v) : i \in 1..Len(ac) }

\* _save_cache returns: the inner "with self.lock" is left.
SaveEnd(t) ==
    /\ pc[t] = "save_end"
    /\ lock' = [lock EXCEPT !.count = @ - 1]
    /\ lastSnapshot' = Written(cur[t].xc, cur[t].ac)
    /\ pc' = [pc EXCEPT ![t] = cur[t].after]
    /\ UNCHANGED <<memory_cache, extracted_code_file, analysis_results_file,
                   cache_metadata_file, now, cur, ret, lastPut, evicted, justLoaded, ops>>

\* The handler returns (the caller takes the value) and its "with self.lock"
\* block is left.
Return(t) ==
    /\ pc[t] \in RetPcs
    /\ lock' = Release(t)
    /\ pc' = [pc EXCEPT ![t] = "idle"]
    /\ cur' = [cur EXCEPT ![t] = NoLocals]
    /\ ret' = [ret EXCEPT ![t] = None]
    /\ UNCHANGED <<memory_cache, extracted_code_file, analysis_results_file,
                   cache_metadata_file, now, lastPut, evicted, lastSnapshot,
                   justLoaded, ops>>

\* Time passes between handler invocations.
Tick ==
    /\ now < MaxTime
    /\ \A t \in Threads : pc[t] = "idle"
    /\ now' = now + 1
    /\ UNCHANGED <<memory_cache, extracted_code_file, analysis_results_file,
                   cache_metadata_file, lock, pc, cur, ret, lastPut, evicted,
                   lastSnapshot, justLoaded, ops>>

\* The process ends at any point (a crash, or a plain exit) and a new process
\* constructs the cache: __init__ -> _initialize_cache -> _load_cache.
CrashRestart ==
    /\ ops < MaxOps
    /\ ~justLoaded
    /\ memory_cache' = _load_cache(<<>>, extracted_code_file, analysis_results_file)
    /\ lock' = [owner |-> None, count |-> 0]
    /\ pc' = [t \in Threads |-> "idle"]
    /\ cur' = [t \in Threads |-> NoLocals]
    /\ ret' = [t \in Threads |-> None]
    /\ lastPut' = [k \in MemKeys |-> NoPut]
    /\ evicted' = {}
    /\ justLoaded' = TRUE
    /\ ops' = ops + 1
    /\ UNCHANGED <<extracted_code_file, analysis_results_file, cache_metadata_file,
                   now, lastSnapshot>>

\* A new cache over an empty cache directory.
CacheStart ==
    /\ memory_cache = <<>>
    /\ extracted_code_file = AbsentFile
    /\ analysis_results_file = AbsentFile
    /\ cache_metadata_file = AbsentFile
    /\ now = 0
    /\ lock = [owner |-> None, count |-> 0]
    /\ pc = [t \in Threads |-> "idle"]
    /\ cur = [t \in Threads |-> NoLocals]
    /\ ret = [t \in Threads |-> None]
    /\ lastPut = [k \in MemKeys |-> NoPut]
    /\ evicted = {}
    /\ lastSnapshot = {}
    /\ justLoaded = FALSE
    /\ ops = 0

\* While the cache is followed, no orchestrator call and no locate call runs.
otherThanCache == <<resolveVars, locateVars, extractVars, parseVars, singletonVars, origin>>

ResolveParked ==
    /\ fs = {}
    /\ orch = [kind |-> "robust", cache_enabled |-> TRUE]
    /\ cache = <<>>
    /\ apc = [t \in Threads |-> "idle"]
    /\ call = [t \in Threads |-> <<>>]
    /\ hist = [t \in Threads |-> <<>>]
    /\ stored = <<>>
    /\ everStored = {}
    /\ calls = 0
    /\ fsChanges = 0

LocateParked ==
    /\ lpc = "idle"
    /\ loc = <<>>
    /\ probes = <<>>

ExtractParked ==
    /\ xpc = "idle"
    /\ ext = <<>>

ParseParked ==
    /\ ppc = "idle"
    /\ par = <<>>

\* No thread is inside get_cache(); the module has just been imported.
SingletonParked ==
    /\ _global_cache = 0
    /\ gpc = [t \in Threads |-> "idle"]
    /\ constructed = [t \in Threads |-> 0]
    /\ returned = [t \in Threads |-> 0]
    /\ instances = 0

\* No call has stored under a key.
KeyedParked == origin = <<>>

CacheInit ==
    CacheStart /\ ResolveParked /\ LocateParked /\ ExtractParked /\ ParseParked /\ SingletonParked
    /\ KeyedParked

CacheNext ==
    \/ \E t \in Threads :
        \/ store_extracted_code(t) /\ UNCHANGED otherThanCache
        \/ store_analysis_result(t) /\ UNCHANGED otherThanCache
        \/ StorePut(t) /\ UNCHANGED otherThanCache
        \/ get_extracted_code(t) /\ UNCHANGED otherThanCache
        \/ get_analysis_result(t) /\ UNCHANGED otherThanCache
        \/ GetLookup(t) /\ UNCHANGED otherThanCache
        \/ GetCount(t) /\ UNCHANGED otherThanCache
        \/ GetTouch(t) /\ UNCHANGED otherThanCache
        \/ cleanup_cache_begin(t) /\ UNCHANGED otherThanCache
        \/ CleanupRun(t) /\ UNCHANGED otherThanCache
        \/ get_cache_stats_begin(t) /\ UNCHANGED otherThanCache
        \/ StatsRun(t) /\ UNCHANGED otherThanCache
        \/ clear_cache_begin(t) /\ UNCHANGED otherThanCache
        \/ ClearRun(t) /\ UNCHANGED otherThanCache
        \/ save_and_close(t) /\ UNCHANGED otherThanCache
        \/ SaveBuild(t) /\ UNCHANGED otherThanCache
        \/ SaveOpenExtracted(t) /\ UNCHANGED otherThanCache
        \/ SaveDumpExtracted(t) /\ UNCHANGED otherThanCache
        \/ SaveOpenAnalysis(t) /\ UNCHANGED otherThanCache
        \/ SaveDumpAnalysis(t) /\ UNCHANGED otherThanCache
        \/ SaveOpenMetadata(t) /\ UNCHANGED otherThanCache
        \/ SaveDumpMetadata(t) /\ UNCHANGED otherThanCache
        \/ SaveEnd(t) /\ UNCHANGED otherThanCache
        \/ Return(t) /\ UNCHANGED otherThanCache
    \/ Tick /\ UNCHANGED otherThanCache
    \/ CrashRestart /\ UNCHANGED otherThanCache

CacheSpec == CacheInit /\ [][CacheNext]_vars
\* ------------------------------------------------ properties of the cache
\* What a fresh instance finds on disk.
Loaded == _load_cache(<<>>, extracted_code_file, analysis_results_file)

C4_CapacityAfterPut ==
    \A t \in Threads : pc[t] = "store_ret" => Len(memory_cache) <= max_entries

\* C5: a thread is inside a handler (reading or writing the map or the files)
\* only while it owns the lock, so no handler reads the map while another is
\* between the two writes of a hit or in the middle of any other update.
C5_Serialized ==
    /\ \A t \in Threads : pc[t] # "idle" => (lock.owner = t /\ lock.count >= 1)
    /\ \A t \in Threads : pc[t] \in SavePcs \ {"save_build"} => lock.count >= 2
    /\ \A t, u \in Threads : (t # u /\ pc[t] # "idle") => pc[u] = "idle"

\* A hit is between its two writes (access_count written, last_accessed not
\* yet) under the lock.
C5_Witness ==
    \E t \in Threads :
        /\ pc[t] = "get_touch"
        /\ lock.owner = t
        /\ DictGet(memory_cache, cur[t].key).access_count = 1
        /\ DictGet(memory_cache, cur[t].key).last_accessed < now

\* C6 (as stated): after a restart, the cache holds at least every entry of
\* the last completely written snapshot.
C6_CrashKeepsLastSnapshot ==
    justLoaded => lastSnapshot \subseteq Values(memory_cache)

\* C7 (as stated): when a store returns, the files on disk hold exactly the
\* entries of the in-memory cache.
C7_PutPersists ==
    \A t \in Threads :
        pc[t] = "store_ret" =>
            /\ ~(extracted_code_file.exists /\ ~extracted_code_file.complete)
            /\ ~(analysis_results_file.exists /\ ~analysis_results_file.complete)
            /\ Items(Loaded) = Items(memory_cache)

\* C8 (as stated): when _save_cache has returned, loading the files into a
\* fresh instance gives exactly the in-memory map.
C8_DiskRoundTrip ==
    \A t \in Threads : pc[t] = "save_end" => Items(Loaded) = Items(memory_cache)

\* ======================================================================
\* Part II  parser, file finder, method extractor, orchestrators
\* ======================================================================

\* ------------------------------------------------------------ bounds II
MaxCalls == 3       \* orchestrator calls (clear_cache included) per run
MaxFsChanges == 1   \* files created or deleted per run

\* ---------------------------------------------------------------- text
\* The characters that are tokens of their own; every other token is a run
\* of word characters (\w).
Punct == {".", "#", "$", "(", ")", "[", "]", "/", "\\", ":", " ", "@"}
IsWord(tok) == tok \notin Punct

\* None where the code has Optional[str]: the code tests these values for
\* truth only ("if explicit_path:", "if parse_result.method:") or sets them
\* to a non-empty string, so None and "" are one value here.
NoneStr == <<>>

\* s[a..b], empty when a > b.
Slice(s, a, b) == IF a > b THEN <<>> ELSE SubSeq(s, a, b)

\* Positions of the token tok in s.
Positions(s, tok) == {i \in 1..Len(s) : s[i] = tok}
FirstPos(s, tok) == IF Positions(s, tok) = {} THEN 0
                    ELSE CHOOSE i \in Positions(s, tok) : \A j \in Positions(s, tok) : i <= j
LastPos(s, tok) == IF Positions(s, tok) = {} THEN 0
                   ELSE CHOOSE i \in Positions(s, tok) : \A j \in Positions(s, tok) : i >= j

\* str.split(sep)[0] and str.split(sep)[-1]
SplitFirst(s, sep) == IF FirstPos(s, sep) = 0 THEN s ELSE Slice(s, 1, FirstPos(s, sep) - 1)
SplitLast(s, sep) == Slice(s, LastPos(s, sep) + 1, Len(s))

\* str.split(sep): the parts between the separators, empty parts included.
RECURSIVE Split(_, _)
Split(s, sep) ==
    IF FirstPos(s, sep) = 0 THEN <<s>>
    ELSE <<Slice(s, 1, FirstPos(s, sep) - 1)>> \o Split(Slice(s, FirstPos(s, sep) + 1, Len(s)), sep)

\* sep.join(parts)
RECURSIVE Join(_, _)
Join(parts, sep) ==
    IF parts = <<>> THEN <<>>
    ELSE IF Len(parts) = 1 THEN parts[1]
    ELSE parts[1] \o <<sep>> \o Join(Tail(parts), sep)

\* str.replace(a, b) for one-character a and b
Replace(s, a, b) == [i \in DOMAIN s |-> IF s[i] = a THEN b ELSE s[i]]

\* str.lower(): the words of the model that contain upper-case letters.
LowerTok(tok) ==
    CASE tok = "Y" -> "y" [] tok = "A" -> "a" [] tok = "Foo" -> "foo"
      [] tok = "Baz" -> "baz" [] tok = "testBaz" -> "testbaz" [] OTHER -> tok
Lower(s) == [i \in DOMAIN s |-> LowerTok(s[i])]

\* str.strip()
RECURSIVE Strip(_)
Strip(s) ==
    IF s = <<>> THEN s
    ELSE IF Head(s) = " " THEN Strip(Tail(s))
    ELSE IF s[Len(s)] = " " THEN Strip(Slice(s, 1, Len(s) - 1))
    ELSE s

\* ------------------------------------------- RobustStackTraceParser
StackTraceParseResult(class_fqn, method, file_path_provided, explicit_path) ==
    [class_fqn |-> class_fqn, method |-> method,
     file_path_provided |-> file_path_provided, explicit_path |-> explicit_path]

\* param_test_pattern (.+)\[.*\]$ matched from the start: the text ends with
\* "]" and has a "[" after at least one character; the greedy (.+) takes
\* everything up to the last such "[".
ParamBrackets(s) == {i \in Positions(s, "[") : i >= 2 /\ i < Len(s)}
ParamMatch(s) == s # <<>> /\ s[Len(s)] = "]" /\ ParamBrackets(s) # {}
ParamGroup1(s) ==
    Slice(s, 1, (CHOOSE i \in ParamBrackets(s) : \A j \in ParamBrackets(s) : i >= j) - 1)

_clean_input(input_line) ==
    LET cleaned == Strip(input_line)
    IN  IF ParamMatch(cleaned) THEN ParamGroup1(cleaned) ELSE cleaned

\* file_path_pattern ^.*[/\\].*\.java$
_is_file_path(s) ==
    /\ Len(s) >= 3
    /\ s[Len(s)] = "java" /\ s[Len(s) - 1] = "."
    /\ \E i \in 1..(Len(s) - 2) : s[i] \in {"/", "\\"}

\* Path(p).stem: the last component without its last suffix.
PathName(p) == SplitLast(p, "/")
PathStem(p) ==
    LET name == PathName(p)
    IN  IF LastPos(name, ".") > 1 THEN Slice(name, 1, LastPos(name, ".") - 1) ELSE name

_parse_file_path(file_path) ==
    StackTraceParseResult(SplitFirst(PathStem(file_path), "$"), NoneStr, TRUE, file_path)

\* [\w.]+\$?[\w\$]* over a whole text
ClassPattern(s) ==
    /\ s # <<>>
    /\ s[1] # "$"
    /\ \A i \in 1..Len(s) : IsWord(s[i]) \/ s[i] \in {".", "$"}
    /\ \A i \in 1..Len(s) : s[i] = "." => FirstPos(s, "$") = 0 \/ i < FirstPos(s, "$")

\* [\w\$][\w\d_$]* over a whole text
MethodPattern(s) ==
    /\ s # <<>>
    /\ \A i \in 1..Len(s) : IsWord(s[i]) \/ s[i] = "$"

\* intellij_format ^(?P<class>[\w.]+\$?[\w\$]*)#(?P<method>[\w\$][\w\d_$]*)$
IntellijMatch(s) ==
    /\ FirstPos(s, "#") # 0
    /\ ClassPattern(Slice(s, 1, FirstPos(s, "#") - 1))
    /\ MethodPattern(Slice(s, FirstPos(s, "#") + 1, Len(s)))

\* [\w.]+ over a whole text
DottedPattern(s) == s # <<>> /\ \A i \in 1..Len(s) : IsWord(s[i]) \/ s[i] = "."

\* stack_frame ^(?P<class>[\w.]+)\.(?P<method>\w+)\([^)]*\)(?:\s*at\s*.*)?$
\* After the ")" nothing may follow but blanks, "at" and any text.
FrameTail(s) == s = <<>> \/ (Strip(s) # <<>> /\ Head(Strip(s)) = "at")
FrameMatch(s) ==
    LET p == FirstPos(s, "(")
        q == FirstPos(s, ")")
    IN  /\ p >= 4
        /\ IsWord(s[p - 1])
        /\ s[p - 2] = "."
        /\ DottedPattern(Slice(s, 1, p - 3))
        /\ q > p
        /\ FrameTail(Slice(s, q + 1, Len(s)))

_extract_from_match(s, pattern_name) ==
    IF pattern_name = "intellij_format"
    THEN StackTraceParseResult(Slice(s, 1, FirstPos(s, "#") - 1),
                               Slice(s, FirstPos(s, "#") + 1, Len(s)), FALSE, NoneStr)
    ELSE IF pattern_name = "stack_frame"
    THEN StackTraceParseResult(Slice(s, 1, FirstPos(s, "(") - 3),
                               <<s[FirstPos(s, "(") - 1]>>, FALSE, NoneStr)
    ELSE StackTraceParseResult(s, NoneStr, FALSE, NoneStr)

\* RobustStackTraceParser.parse
parse(input_line) ==
    LET cleaned == _clean_input(input_line)
    IN  IF _is_file_path(cleaned) THEN _parse_file_path(cleaned)
        ELSE IF IntellijMatch(cleaned) THEN _extract_from_match(cleaned, "intellij_format")
        ELSE IF FrameMatch(cleaned) THEN _extract_from_match(cleaned, "stack_frame")
        ELSE IF ClassPattern(cleaned) THEN _extract_from_match(cleaned, "class_only")
        ELSE StackTraceParseResult(cleaned, NoneStr, FALSE, NoneStr)

\* ---------------------------------------------------------- filesystem
\* Paths are POSIX paths, compared as written (a case-sensitive filesystem).
RepoRoot == <<"/", "repo">>         \* a repository root that exists
MissingRoot == <<"/", "gone">>      \* a repository root that does not exist
ExistingRoots == {RepoRoot}

\* The files that may exist, in the order os.walk(RepoRoot) meets them
\* (top-down, each directory's entries in listing order).
YDirect == <<"/", "repo", "/", "com", "/", "x", "/", "Y", ".", "java">>
yLib == <<"/", "repo", "/", "lib", "/", "y", ".", "java">>
YOther == <<"/", "repo", "/", "other", "/", "Y", ".", "java">>
YSrcMain == <<"/", "repo", "/", "src", "/", "main", "/", "java", "/", "com", "/", "x", "/", "Y", ".", "java">>
RepoFiles == <<YDirect, yLib, YOther, YSrcMain>>
FileSet == {RepoFiles[i] : i \in 1..Len(RepoFiles)}

\* os.path.isdir / Path.exists over the set F of existing files
Under(f, dir) == Len(f) > Len(dir) + 1 /\ SubSeq(f, 1, Len(dir)) = dir /\ f[Len(dir) + 1] = "/"
IsDir(p, F) == p \in ExistingRoots \/ \E f \in F : Under(f, p)
Exists(p, F) == p \in F \/ IsDir(p, F)

\* pathlib's "/" and os.path.join: an absolute right operand replaces the left
IsAbsolute(p) == p # <<>> /\ p[1] = "/"
PathJoin(a, b) == IF IsAbsolute(b) THEN b ELSE a \o <<"/">> \o b

\* Path(p).parts: the root "/" and then the components
PathParts(p) ==
    IF IsAbsolute(p) THEN <<<<"/">>>> \o Split(Tail(p), "/") ELSE Split(p, "/")

\* ------------------------------------ EnhancedRepositoryFileFinder
common_src_dirs ==
    << <<"src", "/", "main", "/", "java">>,
       <<"src", "/", "test", "/", "java">>,
       <<"src", "/", "java">>,
       <<"src">>,
       <<"test", "/", "java">>,
       <<"tests", "/", "src">> >>

max_search_depth == 8

FileSearchResult(file_path, strategy, searched_paths, candidates) ==
    [file_path |-> file_path, strategy |-> strategy,
     searched_paths |-> searched_paths, candidates |-> candidates,
     success |-> file_path # NoneStr]

_search_explicit_path(explicit_path, repo_path, F) ==
    LET explicit_file == explicit_path
        relative_file == PathJoin(repo_path, explicit_path)
    IN  IF IsAbsolute(explicit_file) /\ Exists(explicit_file, F)
        THEN FileSearchResult(explicit_file, "explicit_path_absolute", <<explicit_file>>, <<>>)
        ELSE IF Exists(relative_file, F)
        THEN FileSearchResult(relative_file, "explicit_path_relative", <<relative_file>>, <<>>)
        ELSE FileSearchResult(NoneStr, "explicit_path_not_found",
                              <<explicit_file, relative_file>>, <<>>)

\* The paths _search_by_fqn tests in turn: the repository root, then each
\* common source directory.
FqnRelativePath(class_fqn) == Replace(SplitFirst(class_fqn, "$"), ".", "/") \o <<".", "java">>
FqnCandidates(class_fqn, repo_path) ==
    <<PathJoin(repo_path, FqnRelativePath(class_fqn))>> \o
    [i \in 1..Len(common_src_dirs) |->
        PathJoin(PathJoin(repo_path, common_src_dirs[i]), FqnRelativePath(class_fqn))]

\* Index of the first path of the sequence that exists, 0 if none does.
FirstExisting(paths, F) ==
    IF \E i \in 1..Len(paths) : Exists(paths[i], F)
    THEN CHOOSE i \in 1..Len(paths) :
            Exists(paths[i], F) /\ \A j \in 1..(i - 1) : ~Exists(paths[j], F)
    ELSE 0

\* A search that leaves out the test of the path directly under the root.
_search_by_fqn_only_src_roots(class_fqn, repo_path, F) ==
    LET cands == Tail(FqnCandidates(class_fqn, repo_path))
        hit == FirstExisting(cands, F)
    IN  IF hit > 0
        THEN FileSearchResult(cands[hit], "exact_fqn_with_src", SubSeq(cands, 1, hit), <<>>)
        ELSE FileSearchResult(NoneStr, "exact_fqn_not_found", cands, <<>>)

_search_by_fqn(class_fqn, repo_path, F) ==
    LET cands == FqnCandidates(class_fqn, repo_path)
        hit == FirstExisting(cands, F)
    IN  IF hit = 1 THEN FileSearchResult(cands[1], "exact_fqn", <<cands[1]>>, <<>>)
        ELSE IF hit > 1
        THEN FileSearchResult(cands[hit], "exact_fqn_with_src", SubSeq(cands, 1, hit), <<>>)
        ELSE FileSearchResult(NoneStr, "exact_fqn_not_found", cands, <<>>)

\* The files os.walk(repo_path) lists, in order; directories deeper than
\* max_search_depth are skipped.
WalkDepth(f, repo_path) ==
    Cardinality(Positions(Slice(f, Len(repo_path) + 2, Len(f)), "/"))
Walk(repo_path, F) ==
    SelectSeq(RepoFiles, LAMBDA f : f \in F /\ Under(f, repo_path)
                                    /\ WalkDepth(f, repo_path) <= max_search_depth)

RECURSIVE FuzzyScan(_, _, _, _)
FuzzyScan(files, target_filename, candidates, repo_path) ==
    IF files = <<>>
    THEN IF candidates # <<>>
         THEN FileSearchResult(candidates[1], "fuzzy_case_insensitive", <<repo_path>>, candidates)
         ELSE FileSearchResult(NoneStr, "not_found", <<repo_path>>, <<>>)
    ELSE IF Lower(PathName(Head(files))) = Lower(target_filename)
    THEN IF PathName(Head(files)) = target_filename
         THEN FileSearchResult(Head(files), "fuzzy_exact_case", <<repo_path>>,
                               candidates \o <<Head(files)>>)
         ELSE FuzzyScan(Tail(files), target_filename, candidates \o <<Head(files)>>, repo_path)
    ELSE FuzzyScan(Tail(files), target_filename, candidates, repo_path)

\* A search that reports no path when it finds nothing.
_fuzzy_search_by_class_name_no_paths(class_fqn, repo_path, F) ==
    LET base_class == SplitFirst(class_fqn, "$")
        class_name == SplitLast(base_class, ".")
        target_filename == class_name \o <<".", "java">>
        found == FuzzyScan(Walk(repo_path, F), target_filename, <<>>, repo_path)
    IN  IF found.success THEN found ELSE FileSearchResult(NoneStr, "not_found", <<>>, <<>>)

_fuzzy_search_by_class_name(class_fqn, repo_path, F) ==
    LET base_class == SplitFirst(class_fqn, "$")
        class_name == SplitLast(base_class, ".")
        target_filename == class_name \o <<".", "java">>
    IN  FuzzyScan(Walk(repo_path, F), target_filename, <<>>, repo_path)

\* EnhancedRepositoryFileFinder.find_file
find_file(class_fqn, repo_root, explicit_path, F) ==
    IF ~Exists(repo_root, F) THEN FileSearchResult(NoneStr, "error", <<repo_root>>, <<>>)
    ELSE IF explicit_path # NoneStr THEN _search_explicit_path(explicit_path, repo_root, F)
    ELSE IF _search_by_fqn(class_fqn, repo_root, F).success
    THEN _search_by_fqn(class_fqn, repo_root, F)
    ELSE _fuzzy_search_by_class_name(class_fqn, repo_root, F)

\* ----------------------------------------- EnhancedMethodExtractor
\* A Java file is what the two method patterns find in it: the matches in
\* file order, each with the name, the line of the match, the number of
\* newlines of the brace-matched body, the matched signature text, and which
\* of the patterns match there (std: method_patterns[0], test: method_patterns[1]).
Match(name, line, newlines, std, test) ==
    [name |-> <<name>>, line |-> line, newlines |-> newlines,
     signature |-> "sig " \o name, body |-> "body " \o name, std |-> std, test |-> test]

\* ---- Java source text
\* A source file is its lines; a line is blank, an annotation ("@Test"), a
\* method declaration (modifiers, return type, name, parameter list, then
\* "{" or ";"), a bare call statement ("name(args);") or other text that no
\* method pattern can match or run across (it holds a character such as
\* "=", ";", "{", "}" or "." outside the patterns' classes).  braces lists
\* the braces of the line in the order they stand.  Every line ends with a
\* newline.
JavaLine(kind, mods, rtype, name, braces) ==
    [kind |-> kind, mods |-> mods, ret |-> rtype, name |-> name, braces |-> braces]
Blank == JavaLine("blank", <<>>, <<>>, "", <<>>)
Annotation == JavaLine("annotation", <<>>, <<>>, "", <<>>)
Other(braces) == JavaLine("other", <<>>, <<>>, "", braces)
Decl(mods, rtype, name, braces) == JavaLine("decl", mods, rtype, name, braces)
CallStatement(name) == JavaLine("call", <<>>, <<>>, name, <<>>)

\* method_patterns[0]: any run of modifier words and a return type of word
\* characters, "[", "]", "<", ">", "," and white space, then the name, the
\* parameter list and "{" or ";".  The return type may be white space alone,
\* so the indentation of a call statement passes for one.
StdReturnChars == {"[", "]", "<", ">", ","}
StdPattern(line) ==
    \/ /\ line.kind = "decl"
       /\ \A i \in 1..Len(line.ret) : IsWord(line.ret[i]) \/ line.ret[i] \in StdReturnChars
    \/ line.kind = "call"

\* Where a match that ends on line l starts: "^\s*" (and, with annotations,
\* "(?:@\w+...\s*)*") takes in the lines of the kinds given that stand
\* directly before it.
RECURSIVE MatchStart(_, _, _)
MatchStart(text, l, kinds) ==
    IF l > 1 /\ text[l - 1].kind \in kinds THEN MatchStart(text, l - 1, kinds) ELSE l
StdStart(text, l) == MatchStart(text, l, {"blank"})
TestStart(text, l) == MatchStart(text, l, {"blank", "annotation"})

\* method_patterns[1]: annotations, modifiers out of five, a return type
\* that is one run of word characters, "<" and ">", the name, the parameter
\* list and "{".  After an annotation the return type may be the end of the
\* annotation's own name, so an annotated "name (...) {" statement matches.
TestModifiers == {"public", "private", "protected", "static", "final"}
TestPattern(text, l) ==
    \/ /\ text[l].kind = "decl"
       /\ text[l].braces # <<>>
       /\ \A i \in 1..Len(text[l].mods) : text[l].mods[i] \in TestModifiers
       /\ Len(text[l].ret) = 1
       /\ IsWord(text[l].ret[1])
    \/ /\ text[l].kind = "call"
       /\ text[l].braces # <<>>
       /\ \E k \in TestStart(text, l)..(l - 1) : text[k].kind = "annotation"

\* The braces of the text from line l on, each with its line.
RECURSIVE BraceStream(_, _)
BraceStream(text, l) ==
    IF l > Len(text) THEN <<>>
    ELSE [i \in 1..Len(text[l].braces) |-> [line |-> l, brace |-> text[l].braces[i]]]
         \o BraceStream(text, l + 1)

\* The brace counting of _extract_method_body over a stream that begins with
\* "{": the line of the "}" that brings the count back to 0, 0 if none does.
RECURSIVE CountBraces(_, _)
CountBraces(stream, brace_count) ==
    IF stream = <<>> THEN 0
    ELSE IF Head(stream).brace = "{" THEN CountBraces(Tail(stream), brace_count + 1)
    ELSE IF brace_count = 1 THEN Head(stream).line
    ELSE CountBraces(Tail(stream), brace_count - 1)

\* _extract_method_body from the start of a match: the number of newlines of
\* the body it returns, -1 for the empty body it returns when no "{" follows.
\* Without a matching "}" the body is the rest of the text.
BodyNewlines(text, start) ==
    LET stream == BraceStream(text, start)
        from == SelectSeq(stream, LAMBDA b : b.brace = "{")
    IN  IF from = <<>> THEN -1
        ELSE LET first == CHOOSE i \in 1..Len(stream) :
                            stream[i].brace = "{" /\ \A j \in 1..(i - 1) : stream[j].brace # "{"
                 closing == CountBraces(SubSeq(stream, first, Len(stream)), 0)
             IN  IF closing = 0 THEN Len(text) - start + 1 ELSE closing - start

\* One match of a pattern, starting on line start.
MatchAt(text, line, start, std, test) ==
    IF BodyNewlines(text, start) < 0
    THEN [Match(line.name, start, 0, std, test) EXCEPT !.body = ""]
    ELSE Match(line.name, start, BodyNewlines(text, start), std, test)

\* What the two patterns find on line l.
LineMatches(text, l) ==
    LET line == text[l]
        s == StdStart(text, l)
        t == TestStart(text, l)
    IN  IF StdPattern(line) /\ TestPattern(text, l) /\ s = t
        THEN <<MatchAt(text, line, s, TRUE, TRUE)>>
        ELSE (IF TestPattern(text, l) THEN <<MatchAt(text, line, t, FALSE, TRUE)>> ELSE <<>>) \o
             (IF StdPattern(line) THEN <<MatchAt(text, line, s, TRUE, FALSE)>> ELSE <<>>)

RECURSIVE PatternMatchesFrom(_, _)
PatternMatchesFrom(text, l) ==
    IF l > Len(text) THEN <<>> ELSE LineMatches(text, l) \o PatternMatchesFrom(text, l + 1)
PatternMatches(text) == PatternMatchesFrom(text, 1)

\* Y.java: foo at line 3, two overloads of bar, and a method testBaz with an
\* annotation line: the second pattern matches it from the blank line before
\* the annotation (line 14), the first from its declaration (line 16).
TextY ==
    << Other(<<>>), Other(<<"{">>),
       Decl(<<"public">>, <<"void">>, "foo", <<"{">>), Other(<<>>), Other(<<"}">>),
       Blank,
       Decl(<<"public">>, <<"int">>, "bar", <<"{">>), Other(<<>>), Other(<<"}">>),
       Blank,
       Decl(<<"public">>, <<"int">>, "bar", <<"{">>), Other(<<>>), Other(<<"}">>),
       Blank,
       Annotation,
       Decl(<<"public">>, <<"void">>, "testBaz", <<"{">>), Other(<<>>), Other(<<"}">>),
       Other(<<"}">>) >>
ContentY == PatternMatches(TextY)
\* y.java: foo only.
Texty == << Other(<<"{">>), Decl(<<"public">>, <<"void">>, "foo", <<"{">>), Other(<<"}">>),
            Other(<<"}">>) >>
Contenty == PatternMatches(Texty)
\* A.java: run calls bar, then the two overloads of bar follow, the second
\* synchronized and calling check, a method the file does not declare; an
\* abstract declaration of size ends the class.
TextA ==
    << Other(<<"{">>),
       Decl(<<"public">>, <<"void">>, "run", <<"{">>), CallStatement("bar"), Other(<<"}">>),
       Blank,
       Decl(<<"public">>, <<"int">>, "bar", <<"{">>), Other(<<>>), Other(<<"}">>),
       Decl(<<"synchronized">>, <<"int", "[", "]">>, "bar", <<"{">>), CallStatement("check"),
       Other(<<"}">>),
       Decl(<<"abstract">>, <<"int">>, "size", <<>>),
       Other(<<"}">>) >>
ContentA == PatternMatches(TextA)
\* I.java: an abstract declaration of size, ended by ";", stands directly
\* before the method twice, which has a body.
TextI ==
    << Other(<<"{">>),
       Decl(<<"public", "abstract">>, <<"int">>, "size", <<>>),
       Decl(<<"public">>, <<"int">>, "twice", <<"{">>), Other(<<>>), Other(<<"}">>),
       Other(<<"}">>) >>
ContentI == PatternMatches(TextI)
JavaText(file_path) ==
    IF PathName(file_path) = <<"y", ".", "java">> THEN Texty
    ELSE IF PathName(file_path) = <<"A", ".", "java">> THEN TextA
    ELSE IF PathName(file_path) = <<"I", ".", "java">> THEN TextI
    ELSE TextY
Content(file_path) ==
    IF PathName(file_path) = <<"y", ".", "java">> THEN Contenty
    ELSE IF PathName(file_path) = <<"A", ".", "java">> THEN ContentA
    ELSE IF PathName(file_path) = <<"I", ".", "java">> THEN ContentI
    ELSE ContentY

MethodInfo(m) ==
    [name |-> m.name, line_start |-> m.line, line_end |-> m.line + m.newlines,
     signature |-> m.signature, body |-> m.body]

\* for method in methods: keep the first of each (name, line_start)
RECURSIVE Unique(_, _)
Unique(methods, seen) ==
    IF methods = <<>> THEN <<>>
    ELSE IF <<Head(methods).name, Head(methods).line_start>> \in seen
    THEN Unique(Tail(methods), seen)
    ELSE <<Head(methods)>> \o
         Unique(Tail(methods), seen \cup {<<Head(methods).name, Head(methods).line_start>>})

_find_all_methods(content) ==
    LET byStd == SelectSeq(content, LAMBDA m : m.std)
        byTest == SelectSeq(content, LAMBDA m : m.test)
        methods == [i \in 1..Len(byStd) |-> MethodInfo(byStd[i])] \o
                   [i \in 1..Len(byTest) |-> MethodInfo(byTest[i])]
    IN  Unique(methods, {})

MethodExtractionResult(file_path, class_name, method_name) ==
    [status |-> "failure", file_path |-> file_path, class_name |-> class_name,
     method_name |-> method_name, method_code_snippet |-> None, line_range |-> <<>>,
     method_candidates |-> <<>>, file_contents |-> None, method_list |-> <<>>,
     reason |-> None, searched_paths |-> <<>>, suggestions |-> <<>>]

_extract_specific_method(method_name, all_methods, result) ==
    LET matching_methods == SelectSeq(all_methods, LAMBDA m : m.name = method_name)
    IN  IF matching_methods = <<>>
        THEN [result EXCEPT
                !.reason = "method_not_found",
                !.suggestions = <<"Check method name spelling",
                                  "Choose from available methods",
                                  "Verify the method exists in this class">>,
                !.method_list = [i \in 1..Len(all_methods) |->
                                    [name |-> all_methods[i].name,
                                     line |-> all_methods[i].line_start]]]
        ELSE IF Len(matching_methods) = 1
        THEN [result EXCEPT
                !.status = "success",
                !.method_code_snippet = matching_methods[1].body,
                !.line_range = <<matching_methods[1].line_start, matching_methods[1].line_end>>]
        ELSE [result EXCEPT
                !.status = "success",
                !.method_candidates = matching_methods,
                !.method_code_snippet = matching_methods[1].body,
                !.line_range = <<matching_methods[1].line_start, matching_methods[1].line_end>>]

\* The signatures of the model are shorter than 100 characters, so the list
\* carries them whole.
_provide_file_level_analysis(all_methods, result) ==
    [result EXCEPT
        !.status = "success",
        !.method_name = NoneStr,
        !.method_list = [i \in 1..Len(all_methods) |->
                            [name |-> all_methods[i].name,
                             line |-> all_methods[i].line_start,
                             signature |-> all_methods[i].signature]]]

\* EnhancedMethodExtractor.extract; open() fails when the file is not there.
extract(file_path, class_name, method_name, F) ==
    LET result == MethodExtractionResult(file_path, class_name, method_name)
    IN  IF file_path \notin F
        THEN [result EXCEPT !.reason = "file_read_error",
                            !.suggestions = <<"Verify file permissions and encoding">>]
        ELSE IF method_name # NoneStr
        THEN _extract_specific_method(method_name, _find_all_methods(Content(file_path)), result)
        ELSE _provide_file_level_analysis(_find_all_methods(Content(file_path)), result)

\* The result dictionaries (envelopes): the set of keys present, and the
\* value of each key (a default where the key is absent).
Envelope(keys) ==
    [keys |-> keys, status |-> None, reason |-> None, details |-> None,
     file |-> NoneStr, class |-> NoneStr, method |-> NoneStr,
     method_code_snippet |-> None, line_range |-> <<>>, method_candidates |-> <<>>,
     method_list |-> <<>>, searched_paths |-> <<>>, suggestions |-> <<>>]

MethodInfo_to_dict(m) ==
    [name |-> m.name, line |-> m.line_start, line_range |-> <<m.line_start, m.line_end>>,
     signature |-> m.signature, body |-> m.body]

MethodExtractionResult_to_dict(r) ==
    LET base == [Envelope({"status", "file", "class", "method"}) EXCEPT
                    !.status = r.status, !.file = r.file_path,
                    !.class = r.class_name, !.method = r.method_name]
    IN  IF r.status = "success"
        THEN IF r.method_name # NoneStr
             THEN [base EXCEPT
                    !.keys = @ \cup {"method_code_snippet", "line_range"}
                               \cup (IF r.method_candidates # <<>> THEN {"method_candidates"} ELSE {}),
                    !.method_code_snippet = r.method_code_snippet,
                    !.line_range = r.line_range,
                    !.method_candidates = [i \in 1..Len(r.method_candidates) |->
                                              MethodInfo_to_dict(r.method_candidates[i])]]
             ELSE [base EXCEPT
                    !.keys = @ \cup {"method_list"},
                    !.method = NoneStr,
                    !.method_list = r.method_list]
        ELSE [base EXCEPT
                !.keys = @ \cup {"reason", "searched_paths", "suggestions"},
                !.reason = r.reason,
                !.searched_paths = r.searched_paths,
                !.suggestions = r.suggestions]

\* ------------------------------- RobustStackTraceAnalysisSystem
\* Path(file_path).parts from the first part named src, java, main or test
\* on, that part excluded; else the file name.
RelativeMarkers == {<<"src">>, <<"java">>, <<"main">>, <<"test">>}
_get_relative_path(file_path) ==
    LET parts == PathParts(file_path)
        marked == {i \in 1..Len(parts) : parts[i] \in RelativeMarkers}
    IN  IF marked # {}
        THEN Join(Slice(parts, (CHOOSE i \in marked : \A j \in marked : i <= j) + 1, Len(parts)), "/")
        ELSE PathName(file_path)

_create_final_result(extraction_result, file_result) ==
    IF file_result.file_path # NoneStr
    THEN [MethodExtractionResult_to_dict(extraction_result) EXCEPT
            !.file = _get_relative_path(file_result.file_path)]
    ELSE MethodExtractionResult_to_dict(extraction_result)

_create_error_result(reason) ==
    [Envelope({"status", "reason", "details", "suggestions"}) EXCEPT
        !.status = "failure", !.reason = reason, !.details = "Failed to process",
        !.suggestions = <<"Check input format", "Verify repository path exists",
                          "Try explicit file path">>]

_create_file_not_found_result(file_result, parse_result) ==
    [Envelope({"status", "reason", "class", "method", "searched_paths", "suggestions"}) EXCEPT
        !.status = "failure", !.reason = "file_not_found",
        !.class = parse_result.class_fqn, !.method = parse_result.method,
        !.searched_paths = file_result.searched_paths,
        !.suggestions = <<"Verify class name spelling", "Check repository path",
                          "Provide explicit file path", "Check if file exists in repository">>]

\* f"{stack_trace_input}:{repo_root}"
CacheKey(stack_trace_input, repo_root) == stack_trace_input \o <<":">> \o repo_root

CacheCheck_ignores_cache(c, cache_key, enabled) == FALSE

\* "cache_key in self.cache", behind "self.cache_enabled and" in the interface
CacheCheck(c, cache_key, enabled) == enabled /\ HasKey(c, cache_key)

\* ------------------------------------------------------ the calls
\* What callers pass: a reference to a method that exists, to one that does
\* not, a class alone, and a file path.
Inputs == { <<"com", ".", "x", ".", "Y", "#", "foo">>,
            <<"com", ".", "x", ".", "Y", "#", "zap">>,
            <<"com", ".", "x", ".", "Y">>,
            <<"lib", "/", "y", ".", "java">> }
ResolveRoots == {RepoRoot}
CacheKeys == {CacheKey(i, r) : i \in Inputs, r \in ResolveRoots}

\* The instance that is shared: a RobustStackTraceAnalysisSystem, or a
\* StackTraceAnalysisInterface(cache_enabled, use_robust_parser=True).
Orchestrators == { [kind |-> "robust", cache_enabled |-> TRUE],
                   [kind |-> "interface", cache_enabled |-> TRUE],
                   [kind |-> "interface", cache_enabled |-> FALSE] }

NoParse == StackTraceParseResult(NoneStr, NoneStr, FALSE, NoneStr)
NoFile == FileSearchResult(NoneStr, "none", <<>>, <<>>)
NoExtraction == MethodExtractionResult(NoneStr, NoneStr, NoneStr)
NoCall ==
    [stack_trace_input |-> <<>>, repo_root |-> <<>>, cache_key |-> <<>>,
     parse_result |-> NoParse, file_result |-> NoFile,
     extraction_result |-> NoExtraction, result |-> Envelope({}), raised |-> None]
NoHist ==
    [log |-> <<>>, hadStored |-> FALSE, hadEverStored |-> FALSE, cleared |-> FALSE,
     expect |-> Envelope({})]

\* The steps in the order the code has them.
StepRank(step) ==
    CASE step = "parse" -> 1 [] step = "locate" -> 2 [] step = "extract" -> 3
      [] step = "assemble" -> 4 [] step = "store" -> 5

\* analyze / analyze_stack_trace is called: the cache key is built and the
\* cache is tested for it.
analyze(t) ==
    /\ apc[t] = "idle"
    /\ calls < MaxCalls
    /\ \E input \in Inputs, repo_root \in ResolveRoots :
        LET cache_key == CacheKey(input, repo_root) IN
        /\ call' = [call EXCEPT ![t] = [NoCall EXCEPT !.stack_trace_input = input,
                                                     !.repo_root = repo_root,
                                                     !.cache_key = cache_key]]
        /\ hist' = [hist EXCEPT ![t] = [NoHist EXCEPT
                        !.hadStored = HasKey(stored, cache_key),
                        !.hadEverStored = cache_key \in everStored]]
        /\ apc' = [apc EXCEPT ![t] =
                    IF CacheCheck(cache, cache_key, orch.cache_enabled) THEN "hit" ELSE "parse"]
    /\ calls' = calls + 1
    /\ UNCHANGED <<fs, orch, cache, stored, everStored, fsChanges>>

\* "return self.cache[cache_key]": KeyError when the key is gone by now.
CacheHit(t) ==
    /\ apc[t] = "hit"
    /\ IF HasKey(cache, call[t].cache_key)
       THEN /\ call' = [call EXCEPT ![t].result = DictGet(cache, call[t].cache_key)]
            /\ hist' = [hist EXCEPT ![t].expect =
                            IF HasKey(stored, call[t].cache_key)
                            THEN DictGet(stored, call[t].cache_key) ELSE Envelope({})]
       ELSE /\ call' = [call EXCEPT ![t].raised = "KeyError"]
            /\ hist' = hist
    /\ apc' = [apc EXCEPT ![t] = "ret"]
    /\ UNCHANGED <<fs, orch, cache, stored, everStored, calls, fsChanges>>

\* Step 1, _parse_input: parse() raises for no text, so the parsing_failed
\* return is not taken.
ParseStep(t) ==
    /\ apc[t] = "parse"
    /\ call' = [call EXCEPT ![t].parse_result = parse(call[t].stack_trace_input)]
    /\ hist' = [hist EXCEPT ![t].log = Append(@, "parse")]
    /\ apc' = [apc EXCEPT ![t] = "locate"]
    /\ UNCHANGED <<fs, orch, cache, stored, everStored, calls, fsChanges>>

\* Step 2, _find_file; without a file the failure envelope is the result:
\* RobustStackTraceAnalysisSystem.analyze returns it unstored, and the
\* interface, which gets it from the module-level analyze_stack_trace, goes
\* on to store it.
LocateStep(t) ==
    /\ apc[t] = "locate"
    /\ LET file_result == find_file(call[t].parse_result.class_fqn, call[t].repo_root,
                                    call[t].parse_result.explicit_path, fs)
       IN  IF file_result.success
           THEN /\ call' = [call EXCEPT ![t].file_result = file_result]
                /\ apc' = [apc EXCEPT ![t] = "extract"]
           ELSE /\ call' = [call EXCEPT ![t].file_result = file_result,
                                        ![t].result = _create_file_not_found_result(
                                                        file_result, call[t].parse_result)]
                /\ apc' = [apc EXCEPT ![t] = IF orch.kind = "interface" THEN "store" ELSE "ret"]
    /\ hist' = [hist EXCEPT ![t].log = Append(@, "locate")]
    /\ UNCHANGED <<fs, orch, cache, stored, everStored, calls, fsChanges>>

\* Step 3, _extract_or_analyze
ExtractStep(t) ==
    /\ apc[t] = "extract"
    /\ call' = [call EXCEPT ![t].extraction_result =
                    extract(call[t].file_result.file_path, call[t].parse_result.class_fqn,
                            call[t].parse_result.method, fs)]
    /\ hist' = [hist EXCEPT ![t].log = Append(@, "extract")]
    /\ apc' = [apc EXCEPT ![t] = "assemble"]
    /\ UNCHANGED <<fs, orch, cache, stored, everStored, calls, fsChanges>>

\* Step 4, _create_final_result
AssembleStep(t) ==
    /\ apc[t] = "assemble"
    /\ call' = [call EXCEPT ![t].result =
                    _create_final_result(call[t].extraction_result, call[t].file_result)]
    /\ hist' = [hist EXCEPT ![t].log = Append(@, "assemble")]
    /\ apc' = [apc EXCEPT ![t] = "store"]
    /\ UNCHANGED <<fs, orch, cache, stored, everStored, calls, fsChanges>>

\* "self.cache[cache_key] = result".  The interface runs the steps in a
\* RobustStackTraceAnalysisSystem made for the call, whose own cache goes
\* with it, and stores in its own cache when cache_enabled.
StoreStep(t) ==
    /\ apc[t] = "store"
    /\ IF orch.cache_enabled
       THEN /\ cache' = DictSet(cache, call[t].cache_key, call[t].result)
            /\ stored' = DictSet(stored, call[t].cache_key, call[t].result)
            /\ everStored' = everStored \cup {call[t].cache_key}
            /\ hist' = [hist EXCEPT ![t].log = Append(@, "store")]
       ELSE UNCHANGED <<cache, stored, everStored, hist>>
    /\ apc' = [apc EXCEPT ![t] = "ret"]
    /\ UNCHANGED <<fs, orch, call, calls, fsChanges>>

\* The call returns call[t].result (or raises call[t].raised) to its caller.
AnalyzeReturn(t) ==
    /\ apc[t] = "ret"
    /\ apc' = [apc EXCEPT ![t] = "idle"]
    /\ call' = [call EXCEPT ![t] = NoCall]
    /\ hist' = [hist EXCEPT ![t] = NoHist]
    /\ UNCHANGED <<fs, orch, cache, stored, everStored, calls, fsChanges>>

\* StackTraceAnalysisInterface.clear_cache
Interface_clear_cache ==
    /\ orch.kind = "interface"
    /\ calls < MaxCalls
    /\ cache' = <<>>
    /\ stored' = <<>>
    /\ hist' = [t \in Threads |-> IF apc[t] = "idle" THEN hist[t]
                                  ELSE [hist[t] EXCEPT !.cleared = TRUE]]
    /\ calls' = calls + 1
    /\ UNCHANGED <<fs, orch, apc, call, everStored, fsChanges>>

\* The repository changes under the tool: a file is created, or deleted.
CreateFile ==
    /\ fsChanges < MaxFsChanges
    /\ \E f \in FileSet \ fs : fs' = fs \cup {f}
    /\ fsChanges' = fsChanges + 1
    /\ UNCHANGED <<orch, cache, apc, call, hist, stored, everStored, calls>>

DeleteFile ==
    /\ fsChanges < MaxFsChanges
    /\ \E f \in fs : fs' = fs \ {f}
    /\ fsChanges' = fsChanges + 1
    /\ UNCHANGED <<orch, cache, apc, call, hist, stored, everStored, calls>>

ResolveStart ==
    /\ fs \in SUBSET FileSet
    /\ orch \in Orchestrators
    /\ cache = <<>>
    /\ apc = [t \in Threads |-> "idle"]
    /\ call = [t \in Threads |-> NoCall]
    /\ hist = [t \in Threads |-> NoHist]
    /\ stored = <<>>
    /\ everStored = {}
    /\ calls = 0
    /\ fsChanges = 0

otherThanResolve == <<cacheVars, locateVars, extractVars, parseVars, singletonVars, origin>>

ResolveInit ==
    ResolveStart /\ CacheStart /\ LocateParked /\ ExtractParked /\ ParseParked /\ SingletonParked
    /\ KeyedParked

ResolveNext ==
    \/ \E t \in Threads :
        \/ analyze(t) /\ UNCHANGED otherThanResolve
        \/ CacheHit(t) /\ UNCHANGED otherThanResolve
        \/ ParseStep(t) /\ UNCHANGED otherThanResolve
        \/ LocateStep(t) /\ UNCHANGED otherThanResolve
        \/ ExtractStep(t) /\ UNCHANGED otherThanResolve
        \/ AssembleStep(t) /\ UNCHANGED otherThanResolve
        \/ StoreStep(t) /\ UNCHANGED otherThanResolve
        \/ AnalyzeReturn(t) /\ UNCHANGED otherThanResolve
    \/ Interface_clear_cache /\ UNCHANGED otherThanResolve
    \/ CreateFile /\ UNCHANGED otherThanResolve
    \/ DeleteFile /\ UNCHANGED otherThanResolve

ResolveSpec == ResolveInit /\ [][ResolveNext]_vars

\* ------------------------------------------ properties of the orchestrators
Range(s) == {s[i] : i \in 1..Len(s)}
StrictlyOrdered(log) ==
    \A i \in 1..Len(log) : \A j \in 1..Len(log) : i < j => StepRank(log[i]) < StepRank(log[j])

C2_MethodNotFoundIsSuccess ==
    \A t \in Threads :
        ( /\ apc[t] = "ret"
          /\ "assemble" \in Range(hist[t].log)
          /\ call[t].parse_result.method # NoneStr
          /\ call[t].extraction_result.reason # "file_read_error"
          /\ \A i \in 1..Len(Content(call[t].file_result.file_path)) :
                Content(call[t].file_result.file_path)[i].name # call[t].parse_result.method )
        => /\ call[t].result.status = "success"
           /\ "method_list" \in call[t].result.keys

\* C9: a call reads or writes the state it shares with other calls (the
\* orchestrator's cache) only while it holds the cache lock.
C9_SharedStateUnderLock ==
    \A t \in Threads :
        (apc[t] = "hit" \/ (apc[t] = "store" /\ orch.cache_enabled)) => lock.owner = t

\* ======================================================================
\* Part III  the locators and the paths they probe
\* ======================================================================

\* The existence tests a strategy makes on candidate paths, in the order it
\* makes them (history; the directory walk of the fuzzy search is not a test
\* of a candidate path and adds none).

\* _search_explicit_path: "is_absolute() and exists()", then the path under
\* the repository root.
ExplicitProbes(explicit_path, repo_path, F) ==
    (IF IsAbsolute(explicit_path) THEN <<explicit_path>> ELSE <<>>) \o
    (IF IsAbsolute(explicit_path) /\ Exists(explicit_path, F) THEN <<>>
     ELSE <<PathJoin(repo_path, explicit_path)>>)

\* _search_by_fqn: the candidates up to the first that exists.
FqnProbes(class_fqn, repo_path, F) ==
    LET cands == FqnCandidates(class_fqn, repo_path)
    IN  IF FirstExisting(cands, F) = 0 THEN cands ELSE SubSeq(cands, 1, FirstExisting(cands, F))

\* find_file: the strategies it runs and the tests they make.
find_file_tried(class_fqn, repo_root, explicit_path, F) ==
    IF ~Exists(repo_root, F) THEN <<>>
    ELSE IF explicit_path # NoneStr THEN <<"ExplicitPath">>
    ELSE IF _search_by_fqn(class_fqn, repo_root, F).success THEN <<"ExactFqn">>
    ELSE <<"ExactFqn", "Fuzzy">>

find_file_probes(class_fqn, repo_root, explicit_path, F) ==
    IF ~Exists(repo_root, F) THEN <<>>
    ELSE IF explicit_path # NoneStr THEN ExplicitProbes(explicit_path, repo_root, F)
    ELSE FqnProbes(class_fqn, repo_root, F)

\* ------------------------------------------------ StackTraceLocator
\* The process's working directory, against which os.path.exists resolves a
\* relative path.
Cwd == <<"/", "work">>

\* The words of the model that begin with a capital letter.
CapitalWords == {"Y", "Z", "Outer", "Inner"}

\* class_token ^[A-Z][a-zA-Z0-9_]*(\$[A-Z][a-zA-Z0-9_]*)*$
_looks_like_class(token) ==
    /\ Len(token) % 2 = 1
    /\ \A i \in 1..Len(token) :
        IF i % 2 = 1 THEN token[i] \in CapitalWords ELSE token[i] = "$"

LocateDict(keys, success, file_path, how_found, reason, searched_paths, candidates) ==
    [keys |-> keys, success |-> success, file_path |-> file_path, how_found |-> how_found,
     reason |-> reason, searched_paths |-> searched_paths, candidates |-> candidates]

_locate_explicit_path(explicit_path, F) ==
    IF Exists(PathJoin(Cwd, explicit_path), F)
    THEN LocateDict({"success", "file_path", "how_found", "searched_paths"},
                    TRUE, explicit_path, "explicit_path", None, <<explicit_path>>, <<>>)
    ELSE LocateDict({"success", "reason", "searched_paths", "candidates"},
                    FALSE, NoneStr, None, "explicit_path_not_found", <<explicit_path>>, <<>>)

\* The loop of _incremental_traversal over the tokens from position i on.
RECURSIVE IncrementalLoop(_, _, _, _, _)
IncrementalLoop(tokens, i, current_path, searched_paths, F) ==
    IF i > Len(tokens)
    THEN LocateDict({"success", "searched_paths"}, FALSE, NoneStr, None, None, searched_paths, <<>>)
    ELSE IF _looks_like_class(tokens[i])
    THEN LET candidate_file == PathJoin(current_path, tokens[i] \o <<".", "java">>)
         IN  IF Exists(candidate_file, F)
             THEN LocateDict({"success", "file_path", "how_found", "searched_paths"},
                             TRUE, candidate_file, "exact_fqn", None,
                             Append(searched_paths, candidate_file), <<>>)
             ELSE IncrementalLoop(tokens, i + 1, current_path,
                                  Append(searched_paths, candidate_file), F)
    ELSE LET next_path == PathJoin(current_path, tokens[i])
         IN  IF IsDir(next_path, F)
             THEN IncrementalLoop(tokens, i + 1, next_path, Append(searched_paths, next_path), F)
             ELSE LocateDict({"success", "searched_paths"}, FALSE, NoneStr, None, None,
                             Append(searched_paths, next_path), <<>>)

_incremental_traversal(class_fqn, repo_root, F) ==
    IncrementalLoop(Split(class_fqn, "."), 1, repo_root, <<repo_root>>, F)

\* The directories os.walk(repo_root) visits that hold files, in order.
DirOf(f) == Slice(f, 1, LastPos(f, "/") - 1)
RECURSIVE DistinctSeq(_, _)
DistinctSeq(s, seen) ==
    IF s = <<>> THEN <<>>
    ELSE IF Head(s) \in seen THEN DistinctSeq(Tail(s), seen)
    ELSE <<Head(s)>> \o DistinctSeq(Tail(s), seen \cup {Head(s)})
WalkDirs(repo_root, F) ==
    LET files == Walk(repo_root, F)
    IN  DistinctSeq([i \in 1..Len(files) |-> DirOf(files[i])], {})

\* The loop of _fallback_search over the walked directories.
RECURSIVE FallbackLoop(_, _, _, _, _, _)
FallbackLoop(dirs, target_filename, candidates, searched_paths, repo_root, F) ==
    IF dirs = <<>>
    THEN IF candidates # <<>>
         THEN LocateDict({"success", "file_path", "how_found", "searched_paths", "candidates"},
                         TRUE, candidates[1], "case_insensitive", None, searched_paths, candidates)
         ELSE LocateDict({"success", "reason", "searched_paths", "candidates"},
                         FALSE, NoneStr, None, "file_not_found", searched_paths, candidates)
    ELSE LET files == SelectSeq(Walk(repo_root, F), LAMBDA f : DirOf(f) = Head(dirs))
             exact == SelectSeq(files, LAMBDA f : PathName(f) = target_filename)
             others == SelectSeq(files, LAMBDA f : /\ Lower(PathName(f)) = Lower(target_filename)
                                                  /\ PathName(f) # target_filename)
         IN  IF exact # <<>>
             THEN LocateDict({"success", "file_path", "how_found", "searched_paths", "candidates"},
                             TRUE, exact[1], "fuzzy", None, searched_paths,
                             Append(candidates, exact[1]))
             ELSE FallbackLoop(Tail(dirs), target_filename, candidates \o others,
                               searched_paths, repo_root, F)

_fallback_search(class_fqn, repo_root, previous_searched, F) ==
    LET class_name == SplitFirst(SplitLast(class_fqn, "."), "$")
        target_filename == class_name \o <<".", "java">>
    IN  FallbackLoop(WalkDirs(repo_root, F), target_filename, <<>>, previous_searched, repo_root, F)

\* StackTraceLocator._locate_file
_locate_file(class_fqn, repo_root, is_explicit_path, explicit_path, F) ==
    IF is_explicit_path THEN _locate_explicit_path(explicit_path, F)
    ELSE IF _incremental_traversal(class_fqn, repo_root, F).success
    THEN _incremental_traversal(class_fqn, repo_root, F)
    ELSE _fallback_search(class_fqn, repo_root,
                          _incremental_traversal(class_fqn, repo_root, F).searched_paths, F)

\* _locate_file: the strategies it runs and the tests they make.  Every entry
\* of the traversal's searched_paths after the first (the root it starts
\* from) is a path it tested.
_locate_file_tried(class_fqn, repo_root, is_explicit_path, F) ==
    IF is_explicit_path THEN <<"ExplicitPath">>
    ELSE IF _incremental_traversal(class_fqn, repo_root, F).success
    THEN <<"IncrementalTraversal">>
    ELSE <<"IncrementalTraversal", "Fuzzy">>

_locate_file_probes(class_fqn, repo_root, is_explicit_path, explicit_path, F) ==
    IF is_explicit_path THEN <<explicit_path>>
    ELSE Tail(_incremental_traversal(class_fqn, repo_root, F).searched_paths)

\* ---------------------------------------------------- the locate calls
LocateClasses ==
    { <<"com", ".", "x", ".", "Y">>, <<"Y">>, <<"q", ".", "Z">>, <<"com", ".", "x">> }
LocateRoots == {RepoRoot, MissingRoot}
ExplicitPaths == { NoneStr, <<"lib", "/", "y", ".", "java">>, YOther }

NoLocate ==
    [impl |-> None, class_fqn |-> <<>>, repo_root |-> <<>>, explicit_path |-> NoneStr,
     result |-> NoFile, tried |-> <<>>]

\* EnhancedRepositoryFileFinder.find_file is called and returns.
Enhanced_find_file ==
    /\ lpc = "idle"
    /\ \E class_fqn \in LocateClasses, repo_root \in LocateRoots, explicit_path \in ExplicitPaths :
        /\ loc' = [impl |-> "enhanced", class_fqn |-> class_fqn, repo_root |-> repo_root,
                   explicit_path |-> explicit_path,
                   result |-> find_file(class_fqn, repo_root, explicit_path, fs),
                   tried |-> find_file_tried(class_fqn, repo_root, explicit_path, fs)]
        /\ probes' = find_file_probes(class_fqn, repo_root, explicit_path, fs)
    /\ lpc' = "done"
    /\ UNCHANGED fs

\* StackTraceLocator._locate_file is called and returns.
Locator_locate_file ==
    /\ lpc = "idle"
    /\ \E class_fqn \in LocateClasses, repo_root \in LocateRoots, explicit_path \in ExplicitPaths :
        /\ loc' = [impl |-> "locator", class_fqn |-> class_fqn, repo_root |-> repo_root,
                   explicit_path |-> explicit_path,
                   result |-> _locate_file(class_fqn, repo_root, explicit_path # NoneStr,
                                           explicit_path, fs),
                   tried |-> _locate_file_tried(class_fqn, repo_root, explicit_path # NoneStr, fs)]
        /\ probes' = _locate_file_probes(class_fqn, repo_root, explicit_path # NoneStr,
                                         explicit_path, fs)
    /\ lpc' = "done"
    /\ UNCHANGED fs

\* The caller takes the result.
LocateReturn ==
    /\ lpc = "done"
    /\ lpc' = "idle"
    /\ loc' = NoLocate
    /\ probes' = <<>>
    /\ UNCHANGED fs

otherThanLocate ==
    <<cacheVars, orch, cache, apc, call, hist, stored, everStored, calls, fsChanges,
      extractVars, parseVars, singletonVars, origin>>

LocateInit ==
    /\ CacheStart
    /\ fs \in SUBSET FileSet
    /\ orch = [kind |-> "robust", cache_enabled |-> TRUE]
    /\ cache = <<>>
    /\ apc = [t \in Threads |-> "idle"]
    /\ call = [t \in Threads |-> NoCall]
    /\ hist = [t \in Threads |-> NoHist]
    /\ stored = <<>>
    /\ everStored = {}
    /\ calls = 0
    /\ fsChanges = 0
    /\ lpc = "idle"
    /\ loc = NoLocate
    /\ probes = <<>>
    /\ ExtractParked
    /\ ParseParked
    /\ SingletonParked
    /\ KeyedParked

LocateNext ==
    \/ Enhanced_find_file /\ UNCHANGED otherThanLocate
    \/ Locator_locate_file /\ UNCHANGED otherThanLocate
    \/ LocateReturn /\ UNCHANGED otherThanLocate

LocateSpec == LocateInit /\ [][LocateNext]_vars

\* ---------------------------------------------- properties of the locators
StrategyRank(strategy) ==
    CASE strategy = "ExplicitPath" -> 1 [] strategy = "ExactFqn" -> 2
      [] strategy = "IncrementalTraversal" -> 3 [] strategy = "Fuzzy" -> 4

\* a is b with some entries left out.
RECURSIVE IsSubsequence(_, _)
IsSubsequence(a, b) ==
    IF a = <<>> THEN TRUE
    ELSE IF b = <<>> THEN FALSE
    ELSE IF Head(a) = Head(b) THEN IsSubsequence(Tail(a), Tail(b))
    ELSE IsSubsequence(a, Tail(b))

\* C10: the strategies run in the order ExplicitPath, ExactFqn,
\* IncrementalTraversal, fuzzy; no path is tested after the test that found
\* the file; and searched_paths of the result lists, in the order they were
\* tested, every path the strategies tested.
C10_OrderStopAndSearchedPaths ==
    lpc = "done" =>
        /\ \A i \in 1..Len(loc.tried) : \A j \in 1..Len(loc.tried) :
                i < j => StrategyRank(loc.tried[i]) < StrategyRank(loc.tried[j])
        /\ \A i \in 1..(Len(probes) - 1) : probes[i] \notin fs
        /\ IsSubsequence(probes, loc.result.searched_paths)

\* No file below the root bears the class's file name, in any letter case.
ClassNowhere(class_fqn, repo_root, F) ==
    LET target_filename == SplitLast(SplitFirst(class_fqn, "$"), ".") \o <<".", "java">>
    IN  \A f \in F : Under(f, repo_root) => Lower(PathName(f)) # Lower(target_filename)

\* C11: for a class that has no file anywhere under an existing repository
\* root, either locator returns (it does not raise) a result that is not a
\* success, is marked not found, and lists at least one searched path.
C11_NotFoundHasSearchedPaths ==
    ( /\ lpc = "done"
      /\ loc.explicit_path = NoneStr
      /\ Exists(loc.repo_root, fs)
      /\ ClassNowhere(loc.class_fqn, loc.repo_root, fs) )
    => /\ ~loc.result.success
       /\ loc.result.file_path = NoneStr
       /\ IF loc.impl = "enhanced" THEN loc.result.strategy = "not_found"
          ELSE loc.result.reason = "file_not_found"
       /\ loc.result.searched_paths # <<>>

C11_Witness ==
    /\ lpc = "done"
    /\ loc.impl = "enhanced"
    /\ loc.explicit_path = NoneStr
    /\ Exists(loc.repo_root, fs)
    /\ fs # {}
    /\ ClassNowhere(loc.class_fqn, loc.repo_root, fs)
    /\ loc.result.candidates = <<>>

\* The strategy label a locator's result records.
RecordedStrategy(l) == IF l.impl = "enhanced" THEN l.result.strategy ELSE l.result.how_found
FuzzyStrategies == {"fuzzy_exact_case", "fuzzy_case_insensitive", "fuzzy", "case_insensitive"}

\* The class com.x.Y is located under a root that holds com/x/Y.java.
LocatesDirectY ==
    /\ lpc = "done"
    /\ loc.class_fqn = <<"com", ".", "x", ".", "Y">>
    /\ loc.repo_root = RepoRoot
    /\ loc.explicit_path = NoneStr
    /\ YDirect \in fs

\* C12 as stated: for com.x.Y with repoRoot/com/x/Y.java present, the locator
\* succeeds and the strategy it records is IncrementalTraversal, never a
\* fuzzy one.
C12_RecordsIncrementalTraversal ==
    LocatesDirectY =>
        /\ loc.result.success
        /\ RecordedStrategy(loc) = "IncrementalTraversal"
        /\ RecordedStrategy(loc) \notin FuzzyStrategies

\* C12: for com.x.Y with repoRoot/com/x/Y.java present, the locator succeeds
\* with that file and the strategy it records is exact_fqn (the label of the
\* exact-path test and of the token-by-token traversal alike), never a fuzzy
\* one, whatever other files of that name the repository holds.
C12_DirectFileFoundExactly ==
    LocatesDirectY =>
        /\ loc.result.success
        /\ loc.result.file_path = YDirect
        /\ RecordedStrategy(loc) = "exact_fqn"
        /\ RecordedStrategy(loc) \notin FuzzyStrategies

C12_Witness ==
    /\ LocatesDirectY
    /\ loc.impl = "locator"
    /\ {YOther, YSrcMain} \subseteq fs
    /\ loc.tried = <<"IncrementalTraversal">>

\* The labels of the outcome "the class's file was not found".
NotFoundLabels == {"not_found", "file_not_found"}

\* The outcome label of a locator's failed result.
FailureLabel(l) == IF l.impl = "enhanced" THEN l.result.strategy ELSE l.result.reason

\* C13: when the repository root does not exist, the locator fails at once:
\* it runs no strategy and tests no path, its failure is not labelled as the
\* not-found outcome, and the envelope analyze builds from that failure
\* (step 2 of analyze) does not carry the reason file_not_found either.
C13_MissingRootFailsApart ==
    ( /\ lpc = "done"
      /\ loc.explicit_path = NoneStr
      /\ ~Exists(loc.repo_root, fs) )
    => /\ ~loc.result.success
       /\ loc.tried = <<>>
       /\ probes = <<>>
       /\ FailureLabel(loc) \notin NotFoundLabels
       /\ _create_file_not_found_result(
              loc.result, StackTraceParseResult(loc.class_fqn, NoneStr, FALSE, NoneStr)).reason
          \notin NotFoundLabels

\* ======================================================================
\* Part IV  the method extractors on their own
\* ======================================================================

\* ---------------------------------- StackTraceLocator: method extraction
\* The result dictionaries of the locator: the keys present and their values.
LocatorResult(keys) ==
    [keys |-> keys, status |-> None, reason |-> None, details |-> None, file |-> NoneStr,
     absolute_path |-> NoneStr, class |-> NoneStr, method |-> NoneStr,
     method_line_range |-> <<>>, method_code_snippet |-> None, file_contents |-> <<>>,
     how_found |-> None, candidates |-> <<>>, method_list |-> <<>>,
     searched_paths |-> <<>>, suggestions |-> <<>>]

\* StackTraceLocator._get_relative_path: the parts after the first part named
\* src, java, main, test or tests; else the last three parts of a path of
\* more than three; else the file name.
LocatorMarkers == {<<"src">>, <<"java">>, <<"main">>, <<"test">>, <<"tests">>}
Locator_get_relative_path(file_path) ==
    LET parts == PathParts(file_path)
        marked == {i \in 1..(Len(parts) - 1) : parts[i] \in LocatorMarkers}
    IN  IF marked # {}
        THEN Join(Slice(parts, (CHOOSE i \in marked : \A j \in marked : i <= j) + 1, Len(parts)), "/")
        ELSE IF Len(parts) > 3 THEN Join(Slice(parts, Len(parts) - 2, Len(parts)), "/")
        ELSE PathName(file_path)

\* lines[line_num - 1].strip()
SignatureLine(line) ==
    IF line.kind = "blank" THEN ""
    ELSE IF line.kind = "annotation" THEN "@Test"
    ELSE "sig " \o line.name

\* StackTraceLocator._get_all_methods: its one pattern takes annotations for
\* modifiers and otherwise matches what method_patterns[0] matches; the
\* matches come in file order, so the sort by line leaves them in place.
RECURSIVE Locator_get_all_methods_from(_, _)
Locator_get_all_methods_from(text, l) ==
    IF l > Len(text) THEN <<>>
    ELSE (IF StdPattern(text[l])
          THEN << [name |-> <<text[l].name>>, line |-> TestStart(text, l),
                   signature |-> SignatureLine(text[TestStart(text, l)])] >>
          ELSE <<>>) \o Locator_get_all_methods_from(text, l + 1)
Locator_get_all_methods(text) == Locator_get_all_methods_from(text, 1)

\* StackTraceLocator._find_method_in_content: the first match of the first
\* pattern, unless no "{" follows it; a match of the second pattern is a
\* match of the first, so it adds nothing.  <<start_line, end_line>>, or <<>>
\* for None.
_find_method_in_content(text, method_name) ==
    LET ls == {l \in 1..Len(text) : StdPattern(text[l]) /\ <<text[l].name>> = method_name}
        first == CHOOSE l \in ls : \A k \in ls : l <= k
        start_line == TestStart(text, first)
    IN  IF ls = {} THEN <<>>
        ELSE IF BodyNewlines(text, start_line) < 0 THEN <<>>
        ELSE <<start_line, start_line + BodyNewlines(text, start_line)>>

\* StackTraceLocator._create_failure_result
_create_failure_result(reason) ==
    [LocatorResult({"status", "reason", "details", "searched_paths", "candidates", "suggestions"})
        EXCEPT !.status = "failure", !.reason = reason, !.details = "details",
               !.suggestions = <<"provide explicit file path", "pick a candidate file",
                                 "supply different stack trace format">>]

\* StackTraceLocator._extract_method; open() raises when the file is not there.
_extract_method(file_path, class_fqn, method_name, how_found, F) ==
    IF file_path \notin F THEN _create_failure_result("method_extraction_error")
    ELSE LET method_info == _find_method_in_content(JavaText(file_path), method_name)
         IN  IF method_info # <<>>
             THEN [LocatorResult({"status", "file", "absolute_path", "class", "method",
                                  "method_line_range", "method_code_snippet", "how_found"})
                     EXCEPT !.status = "success",
                            !.file = Locator_get_relative_path(file_path),
                            !.absolute_path = file_path,
                            !.class = class_fqn,
                            !.method = method_name,
                            !.method_line_range = method_info,
                            !.method_code_snippet = "body " \o method_name[1],
                            !.how_found = how_found]
             ELSE [LocatorResult({"status", "reason", "file", "class", "method", "candidates",
                                  "method_list", "suggestions"})
                     EXCEPT !.status = "failure",
                            !.reason = "method_not_found",
                            !.file = Locator_get_relative_path(file_path),
                            !.class = class_fqn,
                            !.method = method_name,
                            !.method_list = Locator_get_all_methods(JavaText(file_path)),
                            !.suggestions = <<"Check method name spelling",
                                              "Select from available methods",
                                              "Verify method exists in this class">>]

\* StackTraceLocator._provide_file_analysis
_provide_file_analysis(file_path, class_fqn, how_found, F) ==
    IF file_path \notin F THEN _create_failure_result("file_analysis_error")
    ELSE [LocatorResult({"status", "file", "absolute_path", "class", "method",
                         "file_contents", "method_list", "how_found"})
            EXCEPT !.status = "success",
                   !.file = Locator_get_relative_path(file_path),
                   !.absolute_path = file_path,
                   !.class = class_fqn,
                   !.method = NoneStr,
                   !.file_contents = JavaText(file_path),
                   !.method_list = Locator_get_all_methods(JavaText(file_path)),
                   !.how_found = how_found]

\* ------------------- enhanced_extractor.py and EnhancedExtractionAdapter
\* EnhancedMethodExtractor.method_pattern of enhanced_extractor.py, matched
\* against one line at a time: the return type begins with a letter, so a
\* declaration matches and a bare call statement does not.
EnhancedMethodPattern(line) ==
    /\ line.kind = "decl"
    /\ \A i \in 1..Len(line.ret) : IsWord(line.ret[i]) \/ line.ret[i] \in StdReturnChars

\* line.count('{') - line.count('}')
BraceBalance(line) ==
    Cardinality({i \in 1..Len(line.braces) : line.braces[i] = "{"})
    - Cardinality({i \in 1..Len(line.braces) : line.braces[i] = "}"})

\* The loop of enhanced_extractor's _extract_method_body from line i on: the
\* line it stops at, or two past the last line of the text (content ends
\* with a newline, so split('\n') yields one empty line more).
RECURSIVE EnhancedBodyLoop(_, _, _, _)
EnhancedBodyLoop(text, i, brace_count, seen) ==
    IF i > Len(text) THEN Len(text) + 2
    ELSE LET count == brace_count + BraceBalance(text[i])
             opened == seen \/ \E k \in 1..Len(text[i].braces) : text[i].braces[k] = "{"
         IN  IF count <= 0 /\ opened THEN i
             ELSE EnhancedBodyLoop(text, i + 1, count, opened)

\* _extract_method_body: the end line of the method declared on start_line.
Enhanced_extract_method_body(text, start_line) ==
    IF text[start_line].braces = <<>> THEN start_line
    ELSE EnhancedBodyLoop(text, start_line, 0, FALSE)

MethodSignature(name, start_line, end_line) ==
    [name |-> name, start_line |-> start_line, end_line |-> end_line]

RECURSIVE Enhanced_find_all_methods_from(_, _)
Enhanced_find_all_methods_from(text, l) ==
    IF l > Len(text) THEN <<>>
    ELSE (IF EnhancedMethodPattern(text[l])
          THEN <<MethodSignature(<<text[l].name>>, l, Enhanced_extract_method_body(text, l))>>
          ELSE <<>>) \o Enhanced_find_all_methods_from(text, l + 1)
Enhanced_find_all_methods(text) == Enhanced_find_all_methods_from(text, 1)

\* a.lower() in b.lower(), for the method names of the model.
ProperlyWithin == { <<"baz", "testbaz">> }
LowerContains(a, b) == Lower(a) = Lower(b) \/ <<Lower(a)[1], Lower(b)[1]>> \in ProperlyWithin

\* _find_specific_method: exact name, then equal without case, then the
\* target contained in the name; the first method of the first tier that
\* has one.  <<>> for None.
_find_specific_method(text, target_method) ==
    LET all == Enhanced_find_all_methods(text)
        exact == SelectSeq(all, LAMBDA m : m.name = target_method)
        nocase == SelectSeq(all, LAMBDA m : Lower(m.name) = Lower(target_method))
        partial == SelectSeq(all, LAMBDA m : LowerContains(target_method, m.name))
    IN  IF exact # <<>> THEN <<exact[1]>>
        ELSE IF nocase # <<>> THEN <<nocase[1]>>
        ELSE IF partial # <<>> THEN <<partial[1]>>
        ELSE <<>>

\* enhanced_extractor's _get_relative_path: every path here ends in ".java",
\* so each of the roots 'src/main/java', 'src/java', 'src', 'java' that is
\* tried is found in the path text when the path has a part of its last name.
Enhanced_get_relative_path(file_path) ==
    LET parts == PathParts(file_path)
        javas == {i \in 1..Len(parts) : parts[i] = <<"java">>}
        srcs == {i \in 1..Len(parts) : parts[i] = <<"src">>}
        after(S) == Join(Slice(parts, (CHOOSE i \in S : \A j \in S : i <= j) + 1, Len(parts)), "/")
        rooted == \E i \in 1..(Len(parts) - 1) :
                    /\ parts[i] = <<"src">>
                    /\ \/ parts[i + 1] = <<"java">>
                       \/ i + 2 <= Len(parts) /\ parts[i + 1] = <<"main">> /\ parts[i + 2] = <<"java">>
    IN  IF rooted THEN after(javas)
        ELSE IF srcs # {} THEN after(srcs)
        ELSE IF javas # {} THEN after(javas)
        ELSE PathName(file_path)

EnhancedExtractionResult(relative_path, status, extraction_type, target_method, all_methods,
                         error_message) ==
    [relative_path |-> relative_path, status |-> status, extraction_type |-> extraction_type,
     target_method |-> target_method, all_methods |-> all_methods,
     error_message |-> error_message]

\* extract_enhanced; target_method and the result's target_method are <<>>
\* for None and a one-element sequence otherwise.
extract_enhanced(file_path, target_method, F) ==
    LET relative_path == Enhanced_get_relative_path(file_path)
        text == JavaText(file_path)
    IN  IF file_path \notin F
        THEN EnhancedExtractionResult(relative_path, "failure", "error", <<>>, <<>>, "error")
        ELSE IF target_method # NoneStr
        THEN IF _find_specific_method(text, target_method) # <<>>
             THEN EnhancedExtractionResult(relative_path, "success", "specific_method",
                                           _find_specific_method(text, target_method), <<>>, None)
             ELSE EnhancedExtractionResult(relative_path, "success", "all_methods", <<>>,
                                           Enhanced_find_all_methods(text), "not found")
        ELSE IF Enhanced_find_all_methods(text) # <<>>
        THEN EnhancedExtractionResult(relative_path, "success", "all_methods", <<>>,
                                      Enhanced_find_all_methods(text), None)
        ELSE EnhancedExtractionResult(relative_path, "success", "full_file", <<>>, <<>>, None)

\* EnhancedExtractionResult.to_dict: "method" is the target's name, or the
\* list of all names, or "FULL_FILE", or absent; method_details the
\* MethodSignature dictionaries that go with it.
EnhancedExtractionResult_to_dict(r) ==
    LET base == [keys |-> {"file", "status", "extraction_type"}
                          \cup (IF r.error_message # None THEN {"error"} ELSE {}),
                 file |-> r.relative_path, status |-> r.status,
                 extraction_type |-> r.extraction_type,
                 method |-> "absent", method_names |-> <<>>, method_details |-> <<>>]
    IN  IF r.target_method # <<>>
        THEN [base EXCEPT !.keys = @ \cup {"method", "method_details"}, !.method = "name",
                          !.method_names = <<r.target_method[1].name>>,
                          !.method_details = r.target_method]
        ELSE IF r.all_methods # <<>>
        THEN [base EXCEPT !.keys = @ \cup {"method", "method_details"}, !.method = "list",
                          !.method_names = [i \in 1..Len(r.all_methods) |-> r.all_methods[i].name],
                          !.method_details = r.all_methods]
        ELSE IF r.extraction_type = "full_file"
        THEN [base EXCEPT !.keys = @ \cup {"method", "content_length"}, !.method = "FULL_FILE"]
        ELSE base

ExtractedMethod(method_name, start_line, end_line) ==
    [method_name |-> method_name, start_line |-> start_line, end_line |-> end_line]
ExtractedCode(target_method, dependent_methods, extraction_strategy) ==
    [target_method |-> target_method, dependent_methods |-> dependent_methods,
     extraction_strategy |-> extraction_strategy]
NoCode == ExtractedCode(ExtractedMethod(NoneStr, 0, 0), <<>>, None)

\* EnhancedExtractionAdapter._convert_to_extracted_code
_convert_to_extracted_code(enhanced_result) ==
    LET details == enhanced_result.method_details
    IN  IF enhanced_result.extraction_type = "specific_method"
        THEN ExtractedCode(
                IF details # <<>>
                THEN ExtractedMethod(details[1].name, details[1].start_line, details[1].end_line)
                ELSE ExtractedMethod(<<"unknown">>, 0, 0),
                <<>>, "enhanced_specific")
        ELSE IF enhanced_result.extraction_type = "all_methods" /\ details # <<>>
        THEN ExtractedCode(
                ExtractedMethod(details[1].name, details[1].start_line, details[1].end_line),
                [i \in 1..(Len(details) - 1) |->
                    ExtractedMethod(details[i + 1].name, details[i + 1].start_line,
                                    details[i + 1].end_line)],
                "enhanced_multiple")
        ELSE ExtractedCode(ExtractedMethod(<<"enhanced_extraction">>, 0, 0), <<>>,
                           "enhanced_fallback")

\* EnhancedExtractionAdapter.extract_compatible_format from the extraction
\* on: the dictionary of analyze_enhanced and the ExtractedCode made of it
\* (NoCode for None).
extract_compatible_format(file_path, method_name, F) ==
    LET enhanced_result == EnhancedExtractionResult_to_dict(extract_enhanced(file_path, method_name, F))
    IN  [enhanced_result |-> enhanced_result,
         code |-> IF enhanced_result.status # "success" THEN NoCode
                  ELSE _convert_to_extracted_code(enhanced_result)]

\* --------------------------------------------------- the extract calls
AFile == <<"/", "repo", "/", "app", "/", "A", ".", "java">>
IFile == <<"/", "repo", "/", "app", "/", "I", ".", "java">>
ExtractFiles == {YDirect, yLib, AFile, IFile}
MethodNames ==
    { <<"foo">>, <<"Foo">>, <<"bar">>, <<"testBaz">>, <<"Baz">>, <<"size">>, <<"twice">>, <<"check">>,
      <<"zap">>, NoneStr }

NoExtract ==
    [impl |-> None, file_path |-> <<>>, class_name |-> <<>>, method_name |-> NoneStr,
     result |-> NoExtraction]

\* EnhancedMethodExtractor.extract is called and returns.
Extractor_extract ==
    /\ xpc = "idle"
    /\ \E file_path \in ExtractFiles, method_name \in MethodNames :
        ext' = [impl |-> "extractor", file_path |-> file_path,
                class_name |-> PathStem(file_path), method_name |-> method_name,
                result |-> extract(file_path, PathStem(file_path), method_name, fs)]
    /\ xpc' = "done"
    /\ UNCHANGED fs

\* The step of StackTraceLocator.locate that follows a located file:
\* _extract_method when the input named a method, _provide_file_analysis
\* otherwise.
Locator_extract ==
    /\ xpc = "idle"
    /\ \E file_path \in ExtractFiles, method_name \in MethodNames :
        ext' = [impl |-> "locator", file_path |-> file_path,
                class_name |-> PathStem(file_path), method_name |-> method_name,
                result |-> IF method_name # NoneStr
                           THEN _extract_method(file_path, PathStem(file_path), method_name,
                                                "exact_fqn", fs)
                           ELSE _provide_file_analysis(file_path, PathStem(file_path),
                                                       "exact_fqn", fs)]
    /\ xpc' = "done"
    /\ UNCHANGED fs

\* EnhancedExtractionAdapter.extract_compatible_format extracts from a
\* located file and converts the result.
Adapter_extract_compatible_format ==
    /\ xpc = "idle"
    /\ \E file_path \in ExtractFiles, method_name \in MethodNames :
        ext' = [impl |-> "adapter", file_path |-> file_path,
                class_name |-> PathStem(file_path), method_name |-> method_name,
                result |-> extract_compatible_format(file_path, method_name, fs)]
    /\ xpc' = "done"
    /\ UNCHANGED fs

\* The caller takes the result.
ExtractReturn ==
    /\ xpc = "done"
    /\ xpc' = "idle"
    /\ ext' = NoExtract
    /\ UNCHANGED fs

otherThanExtract ==
    <<cacheVars, orch, cache, apc, call, hist, stored, everStored, calls, fsChanges,
      locateVars, parseVars, singletonVars, origin>>

ExtractInit ==
    /\ CacheStart
    /\ fs \in SUBSET ExtractFiles
    /\ orch = [kind |-> "robust", cache_enabled |-> TRUE]
    /\ cache = <<>>
    /\ apc = [t \in Threads |-> "idle"]
    /\ call = [t \in Threads |-> NoCall]
    /\ hist = [t \in Threads |-> NoHist]
    /\ stored = <<>>
    /\ everStored = {}
    /\ calls = 0
    /\ fsChanges = 0
    /\ LocateParked
    /\ xpc = "idle"
    /\ ext = NoExtract
    /\ ParseParked
    /\ SingletonParked
    /\ KeyedParked

ExtractNext ==
    \/ Extractor_extract /\ UNCHANGED otherThanExtract
    \/ Locator_extract /\ UNCHANGED otherThanExtract
    \/ Adapter_extract_compatible_format /\ UNCHANGED otherThanExtract
    \/ ExtractReturn /\ UNCHANGED otherThanExtract

ExtractSpec == ExtractInit /\ [][ExtractNext]_vars

\* -------------------------------------------- properties of the extractors
\* The lines of the text that declare a method of the name.
DeclLines(text, name) ==
    {l \in 1..Len(text) : text[l].kind = "decl" /\ <<text[l].name>> = name}

\* The method found starts where a pattern's match of the declaration on
\* line l starts.
FoundAt(line_start, text, l) == line_start \in {StdStart(text, l), TestStart(text, l)}

\* EnhancedMethodExtractor.extract or StackTraceLocator._extract_method read
\* an existing file for a method name.
ExtractedByName ==
    /\ xpc = "done"
    /\ ext.impl \in {"extractor", "locator"}
    /\ ext.file_path \in fs
    /\ ext.method_name # NoneStr

\* C14: when the file declares the requested name n >= 2 times, extract
\* succeeds, its candidates are those n declarations, one candidate each,
\* and the method it returns (line_range) is the declaration that stands
\* first in the file.
C14_OverloadsAllAndFirst ==
    LET text == JavaText(ext.file_path)
        decls == DeclLines(text, ext.method_name)
        cands == IF ext.impl = "extractor" THEN ext.result.method_candidates ELSE <<>>
        first == CHOOSE l \in decls : \A k \in decls : l <= k
    IN  (ExtractedByName /\ ext.impl = "extractor" /\ Cardinality(decls) >= 2)
        => /\ ext.result.status = "success"
           /\ Len(cands) = Cardinality(decls)
           /\ \A i \in 1..Len(cands) : \E l \in decls : FoundAt(cands[i].line_start, text, l)
           /\ \A l \in decls : \E i \in 1..Len(cands) : FoundAt(cands[i].line_start, text, l)
           /\ ext.result.line_range # <<>>
           /\ FoundAt(ext.result.line_range[1], text, first)

\* The lines of the text that declare a method.
AllDeclLines(text) == {l \in 1..Len(text) : text[l].kind = "decl"}

\* C15: when the file declares no method of the requested name, extract
\* returns the method-not-found failure with a method list that holds every
\* method the file declares, in ascending order of line, and no name the
\* file does not declare.
C15_NotFoundCatalogue ==
    LET text == JavaText(ext.file_path)
        catalog == ext.result.method_list
    IN  (ExtractedByName /\ DeclLines(text, ext.method_name) = {})
        => /\ ext.result.status = "failure"
           /\ ext.result.reason = "method_not_found"
           /\ \A l \in AllDeclLines(text) : \E i \in 1..Len(catalog) :
                /\ catalog[i].name = <<text[l].name>>
                /\ FoundAt(catalog[i].line, text, l)
           /\ \A i \in 1..Len(catalog) : \A j \in 1..Len(catalog) :
                i < j => catalog[i].line <= catalog[j].line
           /\ \A i \in 1..Len(catalog) : DeclLines(text, catalog[i].name) # {}

\* The names of the methods the text declares.
DeclaredNames(text) == {<<text[l].name>> : l \in AllDeclLines(text)}

\* C16: when no method is named, the result of each layer carries the
\* method list of the file (every declared method is on it) with method
\* null, and no layer makes one of the file's methods the target: not the
\* extractor, not the envelope the orchestrator makes of its result, not the
\* locator, not the adapter's dictionary or the ExtractedCode it converts to.
C16_NoMethodNoneSelected ==
    LET text == JavaText(ext.file_path)
        listed(catalog) == \A l \in AllDeclLines(text) : \E i \in 1..Len(catalog) :
                                catalog[i].name = <<text[l].name>>
    IN  (xpc = "done" /\ ext.file_path \in fs /\ ext.method_name = NoneStr)
        => CASE ext.impl = "extractor" ->
                    /\ ext.result.status = "success"
                    /\ ext.result.method_name = NoneStr
                    /\ listed(ext.result.method_list)
                    /\ MethodExtractionResult_to_dict(ext.result).method = NoneStr
                    /\ "method_list" \in MethodExtractionResult_to_dict(ext.result).keys
                    /\ listed(MethodExtractionResult_to_dict(ext.result).method_list)
             [] ext.impl = "locator" ->
                    /\ ext.result.status = "success"
                    /\ ext.result.method = NoneStr
                    /\ listed(ext.result.method_list)
             [] ext.impl = "adapter" ->
                    /\ ext.result.enhanced_result.status = "success"
                    /\ ext.result.enhanced_result.method \in {"absent", "list"}
                    /\ ext.result.code.target_method.method_name \notin DeclaredNames(text)

\* ======================================================================
\* Part V  the two parsers on their own
\* ======================================================================

\* ------------------------------------------------------------ bounds V
MaxChain == 4       \* elements of a dot chain

\* ------------------------------------------- StackTraceLocator._parse_input
\* _normalize_input: strip, backslashes to slashes, param_test suffix off.
_normalize_input(input_line) ==
    LET normalized == Replace(Strip(input_line), "\\", "/")
    IN  IF ParamMatch(normalized) THEN ParamGroup1(normalized) ELSE normalized

\* intellij_format ^([^#]+)#(.+)$ : something before the first "#" and
\* something after it.
LocatorIntellijMatch(s) == FirstPos(s, "#") >= 2 /\ FirstPos(s, "#") < Len(s)

\* stack_frame ^(.+)\.(\w+)\([^)]*\)(?:\s*at\s*.*)?$ : the positions of a
\* "(" that follows ".word", has something before the ".", and whose first
\* ")" ends the text or is followed by "at ...". The greedy (.+) takes the
\* last of them.
NextPos(s, p, tok) ==
    IF \E q \in (p + 1)..Len(s) : s[q] = tok
    THEN CHOOSE q \in (p + 1)..Len(s) : s[q] = tok /\ \A r \in (p + 1)..(q - 1) : s[r] # tok
    ELSE 0
LocatorFramePositions(s) ==
    {p \in 4..Len(s) :
        /\ s[p] = "("
        /\ IsWord(s[p - 1])
        /\ s[p - 2] = "."
        /\ NextPos(s, p, ")") # 0
        /\ FrameTail(Slice(s, NextPos(s, p, ")") + 1, Len(s)))}
LocatorFrameMatch(s) == LocatorFramePositions(s) # {}
LocatorFrameAt(s) ==
    CHOOSE p \in LocatorFramePositions(s) : \A q \in LocatorFramePositions(s) : p >= q

\* The words of the model that begin with neither a lower-case nor an
\* upper-case letter.
NonLetterWords == {"_t", "0", "12"}

\* method_token ^[a-z][a-zA-Z0-9_]*$|^.*\(\)$
_looks_like_method(token) ==
    \/ /\ Len(token) = 1
       /\ IsWord(token[1])
       /\ token[1] \notin CapitalWords
       /\ token[1] \notin NonLetterWords
    \/ /\ Len(token) >= 2
       /\ token[Len(token) - 1] = "("
       /\ token[Len(token)] = ")"

\* method_parens (.+)\(\)$
_clean_method_name(method_token) ==
    IF /\ Len(method_token) >= 3
       /\ method_token[Len(method_token) - 1] = "("
       /\ method_token[Len(method_token)] = ")"
    THEN Slice(method_token, 1, Len(method_token) - 2)
    ELSE method_token

\* The tuple (class_fqn, method_name, is_explicit_path, explicit_path) the
\* locator's parser returns, as a record with the robust parser's field
\* names.
_parse_dot_notation(normalized) ==
    LET tokens == Split(normalized, ".")
        n == Len(tokens)
        classes == {i \in 1..n : _looks_like_class(tokens[i])}
        class_index == IF classes = {} THEN 0
                       ELSE CHOOSE i \in classes : \A j \in classes : i <= j
    IN  IF n < 2 THEN StackTraceParseResult(tokens[1], NoneStr, FALSE, NoneStr)
        ELSE IF class_index = 0
        THEN IF _looks_like_method(tokens[n])
             THEN StackTraceParseResult(Join(SubSeq(tokens, 1, n - 1), "."),
                                        _clean_method_name(tokens[n]), FALSE, NoneStr)
             ELSE StackTraceParseResult(normalized, NoneStr, FALSE, NoneStr)
        ELSE IF class_index < n
        THEN StackTraceParseResult(Join(SubSeq(tokens, 1, class_index), "."),
                                   _clean_method_name(Join(SubSeq(tokens, class_index + 1, n), ".")),
                                   FALSE, NoneStr)
        ELSE StackTraceParseResult(Join(SubSeq(tokens, 1, class_index), "."),
                                   NoneStr, FALSE, NoneStr)

_parse_input(input_line) ==
    LET normalized == _normalize_input(input_line)
    IN  IF _is_file_path(normalized)
        THEN StackTraceParseResult(PathStem(normalized), NoneStr, TRUE, normalized)
        ELSE IF LocatorIntellijMatch(normalized)
        THEN StackTraceParseResult(Slice(normalized, 1, FirstPos(normalized, "#") - 1),
                                   Slice(normalized, FirstPos(normalized, "#") + 1,
                                         Len(normalized)),
                                   FALSE, NoneStr)
        ELSE IF LocatorFrameMatch(normalized)
        THEN StackTraceParseResult(Slice(normalized, 1, LocatorFrameAt(normalized) - 3),
                                   <<normalized[LocatorFrameAt(normalized) - 1]>>,
                                   FALSE, NoneStr)
        ELSE _parse_dot_notation(normalized)

\* ------------------------------------------------------------- inputs
\* The elements a dot chain is made of: package words, class words, method
\* words, a word that begins with an underscore, and nested class names.
ChainElements ==
    {<<"com">>, <<"x">>, <<"Y">>, <<"Z">>, <<"foo">>, <<"unknown">>, <<"_t">>,
     <<"Outer", "$", "Inner">>, <<"Outer", "$", "inner">>}

RECURSIVE ChainsOf(_)
ChainsOf(n) ==
    IF n = 1 THEN ChainElements
    ELSE {c \o <<".">> \o e : c \in ChainsOf(n - 1), e \in ChainElements}
Chains == UNION {ChainsOf(n) : n \in 1..MaxChain}
ShortChains == UNION {ChainsOf(n) : n \in 1..2}

\* Dot chains plain, with a trailing "()" and with a parameterized-test
\* suffix; hash forms; stack frames; explicit paths; blank input.
HashMethods == {<<"foo">>, <<"unknown">>, <<"foo", "(", ")">>, <<"Y">>}
HashForms == {c \o <<"#">> \o m : c \in ShortChains, m \in HashMethods}
FrameArgs == {<<"(", "Y", ".", "java", ":", "12", ")">>, <<"(", "x", ")">>}
Frames == {c \o a : c \in ShortChains, a \in FrameArgs}
Paths ==
    {<<"com", "/", "x", "/", "Y", ".", "java">>,
     <<"com", "\\", "x", "\\", "Y", ".", "java">>,
     <<"/", "repo", "/", "Outer", "$", "Inner", ".", "java">>}
ParseInputs ==
    Chains \cup {c \o <<"(", ")">> : c \in Chains}
           \cup {c \o <<"[", "0", "]">> : c \in Chains}
           \cup HashForms \cup {h \o <<"[", "0", "]">> : h \in HashForms}
           \cup Frames \cup Paths \cup {<<>>, <<" ">>, <<" ", "Y", " ">>}

NoParsed == [impl |-> "none", input |-> <<>>, result |-> <<>>]

\* ------------------------------------------------------------ actions
\* RobustStackTraceParser.parse on an input line.
Robust_parse ==
    /\ ppc = "idle"
    /\ \E input_line \in ParseInputs :
        par' = [impl |-> "robust", input |-> input_line, result |-> parse(input_line)]
    /\ ppc' = "done"

\* StackTraceLocator._parse_input on an input line.
Locator_parse_input ==
    /\ ppc = "idle"
    /\ \E input_line \in ParseInputs :
        par' = [impl |-> "locator", input |-> input_line, result |-> _parse_input(input_line)]
    /\ ppc' = "done"

\* The caller takes the result.
ParseReturn ==
    /\ ppc = "done"
    /\ ppc' = "idle"
    /\ par' = NoParsed

otherThanParse == <<cacheVars, resolveVars, locateVars, extractVars, singletonVars, origin>>

ParseInit ==
    /\ CacheStart
    /\ ResolveParked
    /\ LocateParked
    /\ ExtractParked
    /\ ppc = "idle"
    /\ par = NoParsed
    /\ SingletonParked
    /\ KeyedParked

ParseNext ==
    \/ Robust_parse /\ UNCHANGED otherThanParse
    \/ Locator_parse_input /\ UNCHANGED otherThanParse
    \/ ParseReturn /\ UNCHANGED otherThanParse

ParseSpec == ParseInit /\ [][ParseNext]_vars

\* ---------------------------------------------- properties of the parsers
\* An element of a dot chain is class-like when its first character is an
\* upper-case letter.
ClassLike(element) == element # <<>> /\ element[1] \in CapitalWords
FirstClassLike(elements) ==
    IF \E i \in 1..Len(elements) : ClassLike(elements[i])
    THEN CHOOSE i \in 1..Len(elements) :
            ClassLike(elements[i]) /\ \A j \in 1..(i - 1) : ~ClassLike(elements[j])
    ELSE 0

\* A cleaned input is a dot chain when it has no "#", no parenthesis other
\* than one trailing "()", and no path separator.
WithoutParens(s) ==
    IF Len(s) >= 2 /\ s[Len(s) - 1] = "(" /\ s[Len(s)] = ")"
    THEN Slice(s, 1, Len(s) - 2) ELSE s
IsDotChain(s) ==
    /\ WithoutParens(s) # <<>>
    /\ \A i \in 1..Len(WithoutParens(s)) :
        WithoutParens(s)[i] \notin {"#", "(", ")", "/", "\\", " ", "[", "]"}

\* The input names no method: an explicit path, or a dot chain with no
\* class-like element or with nothing after its first class-like element.
NamesNoMethod(input_line) ==
    LET s == _clean_input(input_line)
        elements == Split(s, ".")
    IN  \/ _is_file_path(s)
        \/ /\ IsDotChain(s)
           /\ s = WithoutParens(s)
           /\ FirstClassLike(elements) \in {0, Len(elements)}

\* C17: a parser never returns the method "unknown", and for an input that
\* names no method the method it returns is null.
C17_MethodNeverUnknown ==
    ppc = "done" =>
        /\ par.result.method # <<"unknown">>
        /\ NamesNoMethod(par.input) => par.result.method = NoneStr

\* C18: a dot chain with a class-like element is split at its first
\* class-like element: the elements up to and including it are the class,
\* the rest joined (less a trailing "()") are the method, and the method is
\* null when nothing follows; whatever the length of the chain and the depth
\* of the package.
C18_DotChainSplitsAtFirstClass ==
    LET elements == Split(par.input, ".")
        n == Len(elements)
        k == FirstClassLike(elements)
    IN  (ppc = "done" /\ IsDotChain(par.input) /\ k # 0)
        => /\ par.result.class_fqn = Join(SubSeq(elements, 1, k), ".")
           /\ par.result.method =
                IF k = n THEN NoneStr
                ELSE WithoutParens(Join(SubSeq(elements, k + 1, n), "."))

\* ------------------------------------------ properties of the whole call
\* The path of a file below the root, from the root.
RelativeTo(file_path, root) == Slice(file_path, Len(root) + 2, Len(file_path))

\* The line that closes the braces opened from line l on: the first line at
\* whose end as many "}" as "{" have been read since line l, at least one.
RECURSIVE OpenBraces(_, _, _)
OpenBraces(text, l, e) ==
    IF e < l THEN 0
    ELSE OpenBraces(text, l, e - 1)
         + Cardinality(Positions(text[e].braces, "{"))
         - Cardinality(Positions(text[e].braces, "}"))
ClosingLine(text, l) ==
    CHOOSE e \in l..Len(text) :
        /\ OpenBraces(text, l, e) = 0
        /\ \A d \in l..(e - 1) : OpenBraces(text, l, d) > 0

\* C19: a call for com.x.Y#foo that finds repoRoot/com/x/Y.java, in a
\* repository that does not change, assembles the envelope status success,
\* file com/x/Y.java (the path from the repository root), class com.x.Y,
\* method foo, and line_range from the line of foo's signature to the line
\* of the brace that closes its body.
C19_EndToEndEnvelope ==
    LET foo == CHOOSE l \in DeclLines(TextY, <<"foo">>) :
                    \A k \in DeclLines(TextY, <<"foo">>) : l <= k
    IN  \A t \in Threads :
            (/\ apc[t] \in {"store", "ret"}
             /\ call[t].stack_trace_input = <<"com", ".", "x", ".", "Y", "#", "foo">>
             /\ call[t].file_result.file_path = YDirect
             /\ fsChanges = 0)
            => /\ call[t].result.status = "success"
               /\ call[t].result.file = RelativeTo(YDirect, call[t].repo_root)
               /\ call[t].result.class = <<"com", ".", "x", ".", "Y">>
               /\ call[t].result.method = <<"foo">>
               /\ call[t].result.line_range = <<foo, ClosingLine(TextY, foo)>>

\* ======================================================================
\* Part VI  the envelopes of whole calls
\* ======================================================================

\* RobustStackTraceAnalysisSystem.analyze past its cache test: parse, find
\* the file in the files F, extract from the files G (those that are there
\* when the extractor opens the file), assemble.
System_analyze_steps(stack_trace_input, repo_root, F, G) ==
    LET parse_result == parse(stack_trace_input)
        file_result == find_file(parse_result.class_fqn, repo_root,
                                 parse_result.explicit_path, F)
    IN  IF ~file_result.success
        THEN _create_file_not_found_result(file_result, parse_result)
        ELSE _create_final_result(extract(file_result.file_path, parse_result.class_fqn,
                                          parse_result.method, G),
                                  file_result)

\* StackTraceLocator.locate: the tuple _parse_input returns is never falsy, a
\* failed file_result is returned as it is.
locate(stack_trace_line, repo_root, F, G) ==
    LET parse_result == _parse_input(stack_trace_line)
        file_result == _locate_file(parse_result.class_fqn, repo_root,
                                    parse_result.file_path_provided,
                                    parse_result.explicit_path, F)
    IN  IF ~file_result.success THEN file_result
        ELSE IF parse_result.method # NoneStr
        THEN _extract_method(file_result.file_path, parse_result.class_fqn,
                             parse_result.method, file_result.how_found, G)
        ELSE _provide_file_analysis(file_result.file_path, parse_result.class_fqn,
                                    file_result.how_found, G)

\* What callers pass: the inputs of Part II, a class no file is named after,
\* a path to a file that is not there, the empty input and a blank one.
EnvelopeInputs ==
    Inputs \cup { <<"q", ".", "Z", "#", "foo">>, <<"lib", "/", "Z", ".", "java">>,
                  <<>>, <<" ">> }

\* The files that are there when the located file is opened: all of them,
\* or all but one that was deleted in between.
LaterFiles(F) == {F} \cup {F \ {f} : f \in F}

NoEnvelope == [impl |-> None, stack_trace_input |-> <<>>, repo_root |-> <<>>, result |-> <<>>]

\* RobustStackTraceAnalysisSystem.analyze is called on a new instance (as
\* analyze_stack_trace makes one) and returns.
System_analyze ==
    /\ lpc = "idle"
    /\ \E input \in EnvelopeInputs, repo_root \in LocateRoots, G \in LaterFiles(fs) :
        loc' = [impl |-> "system", stack_trace_input |-> input, repo_root |-> repo_root,
                result |-> System_analyze_steps(input, repo_root, fs, G)]
    /\ lpc' = "done"
    /\ UNCHANGED <<fs, probes>>

\* StackTraceLocator.locate is called and returns.
Locator_locate ==
    /\ lpc = "idle"
    /\ \E input \in EnvelopeInputs, repo_root \in LocateRoots, G \in LaterFiles(fs) :
        loc' = [impl |-> "locator", stack_trace_input |-> input, repo_root |-> repo_root,
                result |-> locate(input, repo_root, fs, G)]
    /\ lpc' = "done"
    /\ UNCHANGED <<fs, probes>>

\* The caller takes the envelope.
EnvelopeReturn ==
    /\ lpc = "done"
    /\ lpc' = "idle"
    /\ loc' = NoEnvelope
    /\ UNCHANGED <<fs, probes>>

EnvelopeInit ==
    /\ CacheStart
    /\ fs \in SUBSET FileSet
    /\ orch = [kind |-> "robust", cache_enabled |-> TRUE]
    /\ cache = <<>>
    /\ apc = [t \in Threads |-> "idle"]
    /\ call = [t \in Threads |-> NoCall]
    /\ hist = [t \in Threads |-> NoHist]
    /\ stored = <<>>
    /\ everStored = {}
    /\ calls = 0
    /\ fsChanges = 0
    /\ lpc = "idle"
    /\ loc = NoEnvelope
    /\ probes = <<>>
    /\ ExtractParked
    /\ ParseParked
    /\ SingletonParked
    /\ KeyedParked

EnvelopeNext ==
    \/ System_analyze /\ UNCHANGED otherThanLocate
    \/ Locator_locate /\ UNCHANGED otherThanLocate
    \/ EnvelopeReturn /\ UNCHANGED otherThanLocate

EnvelopeSpec == EnvelopeInit /\ [][EnvelopeNext]_vars

\* The result reports a failure: by its status, or by its success flag.
FailureOutcome(r) ==
    \/ "status" \in r.keys /\ r.status = "failure"
    \/ "success" \in r.keys /\ ~r.success

\* C20: every result with a failure outcome that a whole call returns has
\* the key status with the value failure, a reason, and a list of
\* suggestions.
C20_FailureHasReasonAndSuggestions ==
    (lpc = "done" /\ FailureOutcome(loc.result))
    => /\ {"status", "reason", "suggestions"} \subseteq loc.result.keys
       /\ loc.result.status = "failure"
       /\ loc.result.reason # None

\* ------------------------------------------------- the frame of a cache hit
\* The thread that is inside the hit branch of a get, if any (the lock lets
\* in one).
Hitting(t) == pc[t] \in {"get_count", "get_touch"}

\* The cache as a step of a hitting thread may leave it: the count step adds
\* one to the hit entry's access_count, the touch step sets its
\* last_accessed to now, and nothing else differs.
AfterHitStep(t) ==
    LET i == IndexOf(memory_cache, cur[t].key)
    IN  IF pc[t] = "get_count" /\ pc'[t] = "get_touch"
        THEN [memory_cache EXCEPT ![i].v.access_count = @ + 1]
        ELSE IF pc[t] = "get_touch" /\ pc'[t] = "get_ret"
        THEN [memory_cache EXCEPT ![i].v.last_accessed = now]
        ELSE memory_cache

\* C21: from the moment a get finds a fresh entry until it returns, the
\* cache changes only by that get's two writes: access_count of the hit
\* entry plus one, once, and its last_accessed set to now; its timestamp,
\* data and entry_type and every other entry stay as they are, and the get
\* returns the entry's data.  (A restart of the process ends the call.)
C21_HitChangesOnlyAccessFields ==
    [][\A t \in Threads :
          (Hitting(t) /\ ~justLoaded')
          => /\ memory_cache' = AfterHitStep(t)
             /\ pc'[t] \in {pc[t], "get_touch", "get_ret"}
             /\ (pc[t] = "get_count" /\ pc'[t] = "get_ret") = FALSE
             /\ (pc'[t] = "get_ret" /\ pc[t] = "get_touch")
                    => ret'[t] = DictGet(memory_cache, cur[t].key).data]_vars

\* A get has hit one of two entries, a tick after the entry was stored: the
\* entry was read once and its last access is later than its timestamp.
C21_Witness ==
    \E t \in Threads :
        /\ pc[t] = "get_ret"
        /\ ret[t] # None
        /\ Len(memory_cache) = 2
        /\ HasKey(memory_cache, cur[t].key)
        /\ DictGet(memory_cache, cur[t].key).access_count = 1
        /\ DictGet(memory_cache, cur[t].key).last_accessed = now
        /\ DictGet(memory_cache, cur[t].key).timestamp < now

\* --------------------------------------------------- the tiers of a match
\* The names of the methods a file's scan yields, for the extractor that
\* makes it: EnhancedMethodExtractor of enhanced_method_extractor.py, or the
\* one of enhanced_extractor.py behind the adapter.
ScannedNames(impl, file_path) ==
    IF impl = "extractor"
    THEN {_find_all_methods(Content(file_path))[i].name :
            i \in 1..Len(_find_all_methods(Content(file_path)))}
    ELSE {Enhanced_find_all_methods(JavaText(file_path))[i].name :
            i \in 1..Len(Enhanced_find_all_methods(JavaText(file_path)))}

\* The scanned names that match the requested one: equal, equal without
\* regard to case, containing it without regard to case.
EqualTier(names, name) == {n \in names : n = name}
NoCaseTier(names, name) == {n \in names : Lower(n) = Lower(name)}
ContainsTier(names, name) == {n \in names : LowerContains(name, n)}
FirstTier(names, name) ==
    IF EqualTier(names, name) # {} THEN EqualTier(names, name)
    ELSE IF NoCaseTier(names, name) # {} THEN NoCaseTier(names, name)
    ELSE ContainsTier(names, name)

\* The name of the method an extract result selects, <<>> when it selects
\* none.
SelectedNames(e) ==
    IF e.impl = "extractor"
    THEN IF e.result.status = "success"
         THEN {_find_all_methods(Content(e.file_path))[i].name :
                 i \in {j \in 1..Len(_find_all_methods(Content(e.file_path))) :
                          e.result.line_range =
                            <<_find_all_methods(Content(e.file_path))[j].line_start,
                              _find_all_methods(Content(e.file_path))[j].line_end>>}}
         ELSE {}
    ELSE IF e.result.enhanced_result.method = "name"
         THEN {e.result.enhanced_result.method_names[1]}
         ELSE {}

\* C22: extract with a method name selects a method of the first non-empty
\* tier among equal names, names equal without case, and names that contain
\* the requested one; it reports that the method was not found only when the
\* three tiers are empty.
C22_FirstNonEmptyTier ==
    (/\ xpc = "done"
     /\ ext.impl \in {"extractor", "adapter"}
     /\ ext.file_path \in fs
     /\ ext.method_name # NoneStr)
    => LET tier == FirstTier(ScannedNames(ext.impl, ext.file_path), ext.method_name)
       IN  IF tier = {}
           THEN SelectedNames(ext) = {}
           ELSE SelectedNames(ext) # {} /\ SelectedNames(ext) \subseteq tier

\* ------------------------------------------------- the traversal's last probe
\* Walking the tokens as directories from current_path: the file
\* <token>.java in the directory reached, for the first token that is not a
\* directory there; <<>> when every token is a directory.
RECURSIVE TerminalProbe(_, _, _, _)
TerminalProbe(tokens, i, current_path, F) ==
    IF i > Len(tokens) THEN <<>>
    ELSE IF IsDir(PathJoin(current_path, tokens[i]), F)
    THEN TerminalProbe(tokens, i + 1, PathJoin(current_path, tokens[i]), F)
    ELSE PathJoin(current_path, tokens[i] \o <<".", "java">>)

\* C23: the traversal of StackTraceLocator goes down the directories the
\* tokens name, tests <token>.java in the directory it has reached for the
\* first token that is not a directory, and ends there: that file is its
\* last probe; when the file exists it is the result and no other strategy
\* runs, and when it does not the fuzzy search runs after it.
C23_TraversalEndsAtTerminalFile ==
    LET terminal == TerminalProbe(Split(loc.class_fqn, "."), 1, loc.repo_root, fs)
    IN  (/\ lpc = "done"
         /\ loc.impl = "locator"
         /\ loc.explicit_path = NoneStr
         /\ terminal # <<>>)
        => /\ probes # <<>>
           /\ probes[Len(probes)] = terminal
           /\ IF terminal \in fs
              THEN /\ loc.result.success
                   /\ loc.result.file_path = terminal
                   /\ loc.tried = <<"IncrementalTraversal">>
              ELSE loc.tried = <<"IncrementalTraversal", "Fuzzy">>


\* ------------------------------------------------ the fuzzy search's answer
\* The files of the bounded walk whose name is <ClassName>.java in any
\* letter case, in walk order.
FuzzyMatches(class_fqn, repo_root, F) ==
    LET target_filename == SplitFirst(SplitLast(class_fqn, "."), "$") \o <<".", "java">>
    IN  SelectSeq(Walk(repo_root, F),
                  LAMBDA f : Lower(PathName(f)) = Lower(target_filename))
ExactMatches(class_fqn, repo_root, F) ==
    LET target_filename == SplitFirst(SplitLast(class_fqn, "."), "$") \o <<".", "java">>
    IN  SelectSeq(FuzzyMatches(class_fqn, repo_root, F),
                  LAMBDA f : PathName(f) = target_filename)

\* C24: when the fuzzy search has run, the file of the result is an
\* exact-case <ClassName>.java of the bounded walk if there is one, else the
\* first file of the walk that matches in another letter case, and the
\* candidates of the result are all the files of the bounded walk that match
\* in any letter case.
C24_FuzzyChoiceAndCandidates ==
    LET matches == FuzzyMatches(loc.class_fqn, loc.repo_root, fs)
        exact == ExactMatches(loc.class_fqn, loc.repo_root, fs)
    IN  (/\ lpc = "done"
         /\ Len(loc.tried) > 0
         /\ loc.tried[Len(loc.tried)] = "Fuzzy")
        => /\ IF exact # <<>>
              THEN \E i \in 1..Len(exact) : loc.result.file_path = exact[i]
              ELSE IF matches # <<>> THEN loc.result.file_path = matches[1]
              ELSE loc.result.file_path = NoneStr
           /\ {loc.result.candidates[i] : i \in 1..Len(loc.result.candidates)}
              = {matches[i] : i \in 1..Len(matches)}


\* --------------------------------------------------- the extent of a body
\* The line range of the method an extract call returned, <<>> when it
\* returned none.
SelectedRange(e) ==
    IF e.impl = "extractor" THEN e.result.line_range
    ELSE IF e.impl = "locator" THEN e.result.method_line_range
    ELSE IF e.impl = "adapter" /\ e.result.code.extraction_strategy = "enhanced_specific"
                               /\ e.result.code.target_method.start_line > 0
    THEN <<e.result.code.target_method.start_line, e.result.code.target_method.end_line>>
    ELSE <<>>

\* C25: the range an extractor returns for a declaration ends on the line
\* it starts on when the declaration ends in ";", and otherwise on the line
\* of the "}" that brings the depth counted from the declaration's "{" back
\* to zero; no later declaration of the file lies within the range.
C25_BodyEndsWithItsDeclaration ==
    LET text == JavaText(ext.file_path)
        range == SelectedRange(ext)
    IN  (/\ xpc = "done"
         /\ ext.file_path \in fs
         /\ ext.method_name # NoneStr
         /\ range # <<>>)
        => \A l \in AllDeclLines(text) :
                FoundAt(range[1], text, l)
                => /\ range[2] = IF text[l].braces = <<>> THEN range[1]
                                 ELSE ClosingLine(text, l)
                   /\ \A k \in AllDeclLines(text) : ~(l < k /\ k <= range[2])


\* C26: for a dot chain without parentheses none of whose elements is
\* class-like, a parser returns the whole chain as the class and no method:
\* the last element is not taken for a method.
C26_NoClassTokenWholeIsClass ==
    (/\ ppc = "done"
     /\ IsDotChain(par.input)
     /\ par.input = WithoutParens(par.input)
     /\ FirstClassLike(Split(par.input, ".")) = 0)
    => /\ par.result.class_fqn = par.input
       /\ par.result.method = NoneStr


\* ------------------------------------------------------- the empty input
\* The input is empty after the normalization of the parser the call uses.
EmptyAfterNormalization(e) ==
    IF e.impl = "system" THEN _clean_input(e.stack_trace_input) = <<>>
    ELSE _normalize_input(e.stack_trace_input) = <<>>

\* C27: a whole call fails with the reason parsing_failed exactly when its
\* input is empty after normalization, and then no path was searched (the
\* file search was not called); every other input is parsed and the call
\* goes on to the file search.
C27_ParsingFailedIffEmpty ==
    lpc = "done" =>
        IF EmptyAfterNormalization(loc)
        THEN /\ FailureOutcome(loc.result)
             /\ loc.result.reason = "parsing_failed"
             /\ loc.result.searched_paths = <<>>
        ELSE loc.result.reason # "parsing_failed"


\* ======================================================================
\* Part VII  get_cache(), the accessor of the global cache instance
\* ======================================================================
\* get_cache() holds no lock: between its test of _global_cache, the
\* constructor call (which makes the cache directory and reads the cache
\* files), the assignment and the read of the return statement another
\* thread may run.  Each step below is one of those four.

\* A thread calls get_cache(), as the constructors of StackTraceAnalyzer and
\* StackTraceAIAnalyzer do.
GetCacheCall(t) ==
    /\ gpc[t] = "idle"
    /\ gpc' = [gpc EXCEPT ![t] = "test"]
    /\ UNCHANGED <<_global_cache, constructed, returned, instances>>

\* if _global_cache is None:
GetCacheTest(t) ==
    /\ gpc[t] = "test"
    /\ gpc' = [gpc EXCEPT ![t] = IF _global_cache = 0 THEN "construct" ELSE "return"]
    /\ UNCHANGED <<_global_cache, constructed, returned, instances>>

\* StackTraceAnalyzerCache(): a new instance.
GetCacheConstruct(t) ==
    /\ gpc[t] = "construct"
    /\ instances' = instances + 1
    /\ constructed' = [constructed EXCEPT ![t] = instances + 1]
    /\ gpc' = [gpc EXCEPT ![t] = "assign"]
    /\ UNCHANGED <<_global_cache, returned>>

\* _global_cache = <the new instance>
GetCacheAssign(t) ==
    /\ gpc[t] = "assign"
    /\ _global_cache' = constructed[t]
    /\ constructed' = [constructed EXCEPT ![t] = 0]
    /\ gpc' = [gpc EXCEPT ![t] = "return"]
    /\ UNCHANGED <<returned, instances>>

\* return _global_cache
GetCacheReturn(t) ==
    /\ gpc[t] = "return"
    /\ returned' = [returned EXCEPT ![t] = _global_cache]
    /\ gpc' = [gpc EXCEPT ![t] = "idle"]
    /\ UNCHANGED <<_global_cache, constructed, instances>>

otherThanSingleton == <<cacheVars, resolveVars, locateVars, extractVars, parseVars, origin>>

SingletonInit ==
    /\ CacheStart
    /\ ResolveParked
    /\ LocateParked
    /\ ExtractParked
    /\ ParseParked
    /\ SingletonParked
    /\ KeyedParked

SingletonNext ==
    \/ \E t \in Threads : GetCacheCall(t) /\ UNCHANGED otherThanSingleton
    \/ \E t \in Threads : GetCacheTest(t) /\ UNCHANGED otherThanSingleton
    \/ \E t \in Threads : GetCacheConstruct(t) /\ UNCHANGED otherThanSingleton
    \/ \E t \in Threads : GetCacheAssign(t) /\ UNCHANGED otherThanSingleton
    \/ \E t \in Threads : GetCacheReturn(t) /\ UNCHANGED otherThanSingleton

SingletonSpec == SingletonInit /\ [][SingletonNext]_vars

\* C28: whatever the interleaving of the callers of get_cache(), all of them
\* are returned the same instance, and no more than one instance is ever
\* constructed.
C28_OneInstanceForAll ==
    /\ \A t \in Threads : \A u \in Threads :
            (returned[t] # 0 /\ returned[u] # 0) => returned[t] = returned[u]
    /\ instances <= 1


\* ------------------------------------------------- failures and the cache
\* The failure envelopes of a call that found no reference or no file, or
\* broke down.
UncachedReasons == {"parsing_failed", "file_not_found", "system_error"}

\* C30: the last step of a call whose envelope is a failure with the reason
\* parsing_failed, file_not_found or system_error leaves the orchestrator's
\* cache as it was, for RobustStackTraceAnalysisSystem and for
\* StackTraceAnalysisInterface.
C30_FailureLeavesCacheUnchanged ==
    [][\A t \in Threads :
         ( /\ apc[t] \notin {"idle", "hit", "ret"}
           /\ apc'[t] = "ret"
           /\ call'[t].result.status = "failure"
           /\ call'[t].result.reason \in UncachedReasons )
         => cache' = cache]_vars


\* ======================================================================
\* Part VIII  the orchestrators as whole calls, with their cache
\* ======================================================================
\* A root written relative to the working directory, in a directory named
\* "b:", and the file of com.x.Y below it.
ColonRoot == <<"b", ":", "/", "repo">>
YColon == ColonRoot \o <<"/", "com", "/", "x", "/", "Y", ".", "java">>
KeyedFiles == {YDirect, YColon}

\* What callers pass: a class, the same text with ":b" after it, a method.
KeyedInputs ==
    { <<"com", ".", "x", ".", "Y">>,
      <<"com", ".", "x", ".", "Y", ":", "b">>,
      <<"com", ".", "x", ".", "Y", "#", "foo">> }
KeyedRoots == {RepoRoot, ColonRoot}

NoKeyed ==
    [impl |-> None, stack_trace_input |-> <<>>, repo_root |-> <<>>, cache_key |-> <<>>,
     hit |-> FALSE, result |-> <<>>]

\* RobustStackTraceAnalysisSystem.analyze, the whole call: the cached
\* envelope for a key that is in the cache; otherwise the envelope of the
\* steps, stored under the key when the file was found.
System_analyze_cached ==
    /\ lpc = "idle"
    /\ orch.kind = "robust"
    /\ \E input \in KeyedInputs, repo_root \in KeyedRoots :
        LET cache_key == CacheKey(input, repo_root)
            parse_result == parse(input)
            file_result == find_file(parse_result.class_fqn, repo_root,
                                     parse_result.explicit_path, fs)
            result == System_analyze_steps(input, repo_root, fs, fs)
        IN  IF HasKey(cache, cache_key)
            THEN /\ loc' = [impl |-> "system", stack_trace_input |-> input,
                            repo_root |-> repo_root, cache_key |-> cache_key, hit |-> TRUE,
                            result |-> DictGet(cache, cache_key)]
                 /\ UNCHANGED <<cache, origin>>
            ELSE /\ loc' = [impl |-> "system", stack_trace_input |-> input,
                            repo_root |-> repo_root, cache_key |-> cache_key, hit |-> FALSE,
                            result |-> result]
                 /\ IF file_result.success
                    THEN /\ cache' = DictSet(cache, cache_key, result)
                         /\ origin' = DictSet(origin, cache_key, <<input, repo_root>>)
                    ELSE UNCHANGED <<cache, origin>>
    /\ lpc' = "done"
    /\ UNCHANGED <<fs, orch, probes>>

\* StackTraceAnalysisInterface.analyze_stack_trace, the whole call: the
\* cached envelope when the cache is enabled and has the key; otherwise the
\* envelope a RobustStackTraceAnalysisSystem made for the call returns,
\* stored under the key when the cache is enabled.
Interface_analyze_stack_trace ==
    /\ lpc = "idle"
    /\ orch.kind = "interface"
    /\ \E stack_trace_line \in KeyedInputs, repository_path \in KeyedRoots :
        LET cache_key == CacheKey(stack_trace_line, repository_path)
            result == System_analyze_steps(stack_trace_line, repository_path, fs, fs)
        IN  IF CacheCheck(cache, cache_key, orch.cache_enabled)
            THEN /\ loc' = [impl |-> "interface", stack_trace_input |-> stack_trace_line,
                            repo_root |-> repository_path, cache_key |-> cache_key,
                            hit |-> TRUE, result |-> DictGet(cache, cache_key)]
                 /\ UNCHANGED <<cache, origin>>
            ELSE /\ loc' = [impl |-> "interface", stack_trace_input |-> stack_trace_line,
                            repo_root |-> repository_path, cache_key |-> cache_key,
                            hit |-> FALSE, result |-> result]
                 /\ IF orch.cache_enabled
                    THEN /\ cache' = DictSet(cache, cache_key, result)
                         /\ origin' = DictSet(origin, cache_key,
                                              <<stack_trace_line, repository_path>>)
                    ELSE UNCHANGED <<cache, origin>>
    /\ lpc' = "done"
    /\ UNCHANGED <<fs, orch, probes>>

\* The caller takes the envelope.
KeyedReturn ==
    /\ lpc = "done"
    /\ lpc' = "idle"
    /\ loc' = NoKeyed
    /\ UNCHANGED <<fs, orch, cache, origin, probes>>

otherThanKeyed ==
    <<cacheVars, apc, call, hist, stored, everStored, calls, fsChanges,
      extractVars, parseVars, singletonVars>>

KeyedInit ==
    /\ CacheStart
    /\ fs \in SUBSET KeyedFiles
    /\ orch \in Orchestrators
    /\ cache = <<>>
    /\ apc = [t \in Threads |-> "idle"]
    /\ call = [t \in Threads |-> NoCall]
    /\ hist = [t \in Threads |-> NoHist]
    /\ stored = <<>>
    /\ everStored = {}
    /\ calls = 0
    /\ fsChanges = 0
    /\ lpc = "idle"
    /\ loc = NoKeyed
    /\ probes = <<>>
    /\ ExtractParked
    /\ ParseParked
    /\ SingletonParked
    /\ KeyedParked

KeyedNext ==
    \/ System_analyze_cached /\ UNCHANGED otherThanKeyed
    \/ Interface_analyze_stack_trace /\ UNCHANGED otherThanKeyed
    \/ KeyedReturn /\ UNCHANGED otherThanKeyed

KeyedSpec == KeyedInit /\ [][KeyedNext]_vars

\* C29: the cache keys tell the calls apart: the envelope a cache hit
\* returns was stored by a call with the same input and the same
\* repository root.
C29_HitIsForTheSameCall ==
    (lpc = "done" /\ loc.hit)
    => DictGet(origin, loc.cache_key) = <<loc.stack_trace_input, loc.repo_root>>

====
